---- MODULE Spec2Model ----
(***************************************************************************)
(* A model of the sched_ext policy engines of cxl-scheduler.               *)
(*                                                                         *)
(* Part 1: src/ebpf/cxl_pmu_minimal.bpf.c ("cxl_minimal"): the callbacks   *)
(* cxl_init_task, cxl_enqueue, cxl_dispatch, cxl_running, cxl_stopping and *)
(* cxl_exit_task, over the per-task storage, the task's scx fields, the    *)
(* global virtual clock and the fallback dispatch queue.                   *)
(*                                                                         *)
(* Part 2: the callbacks of src/ebpf/cxl_pmu.bpf.c ("cxl_pmu").            *)
(*                                                                         *)
(* Virtual times are u64 in the code.  They are kept here as unsigned      *)
(* values of VTIME_BITS bits with the same modular arithmetic, so that     *)
(* global_vtime - slice wraps below zero exactly as in the code.  The      *)
(* guards cap the forward progress of virtual time at MaxVtime, which      *)
(* keeps all live values within half the range of each other (the case the *)
(* code's (s64)(a - b) comparison is written for).                         *)
(***************************************************************************)
EXTENDS Integers, Sequences, FiniteSets, TLC

\* ------------------------------------------------------------- bounds
NumCpus == 2
VTIME_BITS == 5
MaxVtime == 4
\* SCX_SLICE_DFL is 20 ms in nanoseconds in the host's headers; the model's
\* clock unit is scaled so that one slice is a few units.
SCX_SLICE_DFL == 2
\* read_bytes and write_bytes handed to classify_io_pattern range over 0..MaxBytes
MaxBytes == 20
\* update_damon_data is followed for MaxQuanta steps of the clock
MaxQuanta == 7
\* update_cxl_pmu_metrics is called at any millisecond up to MaxTimeMs
MaxTimeMs == 1200
\* calculate_task_priority is called up to MaxCalls times on one task
MaxCalls == 28

\* The tasks the host schedules: two, enough for every ordering of one task against
\* another in the queue and for two CPUs to run tasks at once.
Tasks == {1, 2}
Cpus == 0..(NumCpus - 1)
NO_CPU == 0 - 1

\* p->scx.weight values the host may report (100 is the default weight).
Weights == {50, 100, 200}
\* Task names by the only characters the classifier looks at.
Comms == {"vectordb", "kworker/0:1", "bash", ""}

\* ------------------------------------------------------------- u64 arithmetic
Modulus == 2 ^ VTIME_BITS
U64(x) == x % Modulus
\* the (s64) cast of an unsigned value
S64(x) == IF x >= Modulus \div 2 THEN x - Modulus ELSE x

\* vtime_before as a comparison of the unsigned values
vtime_before_unsigned(a, b) == a < b

\* static inline bool vtime_before(u64 a, u64 b) { return (s64)(a - b) < 0; }
vtime_before(a, b) == S64(U64(a - b)) < 0

\* ------------------------------------------------------------- classifiers
\* comm[i - 1] after bpf_probe_read_kernel_str(comm, sizeof(comm), p->comm); an empty
\* or unreadable name leaves NUL bytes.
Char(name, i) == IF name = "vectordb" THEN <<"v", "e">>[i]
                 ELSE IF name = "kworker/0:1" THEN <<"k", "w">>[i]
                 ELSE IF name = "bash" THEN <<"b", "a">>[i]
                 ELSE <<"NUL", "NUL">>[i]

\* lines 41-42 with a NUL first byte taken for a match
is_vectordb_task_nul(name) == Char(name, 1) \in {"v", "f", "p", "NUL"}

is_vectordb_task(name) == Char(name, 1) \in {"v", "f", "p"}

is_kworker_task(name) == Char(name, 1) = "k" /\ Char(name, 2) = "w"

VARIABLES
    task_state,     \* where the host holds each task
    comm,           \* p->comm
    dsq_vtime,      \* p->scx.dsq_vtime
    task_cpu,       \* the CPU whose local queue holds the task, or NO_CPU
    task_ctx_stor,  \* the task storage map: NULL or a struct task_ctx
    global_vtime,   \* static u64 global_vtime
    dsq,            \* the list of the dispatch queue FALLBACK_DSQ_ID
    started_vtime   \* history: latest virtual time any task had at a run-start

\* the state of the two policy engines under the host
sched_vars == <<task_state, comm, dsq_vtime, task_cpu, task_ctx_stor, global_vtime,
                dsq, started_vtime>>

VARIABLES
    enq_vtime,      \* cxl_enqueue: the local vtime of a call in progress
    cpu_idle,       \* the host's idle mask: the set of idle CPUs
    cpus_ptr,       \* p->cpus_ptr: the CPUs each task may run on
    select_call,    \* the last call of cxl_select_cpu: task, prev_cpu, return value
    select_pc,      \* cxl_select_cpu calls that run concurrently: where each is
    scx_slice,      \* p->scx.slice: what is left of the task's slice
    scx_weight      \* p->scx.weight

VARIABLES
    damon_data,  \* cxl_pmu: the entry of the damon_data map for one pid (NoPattern: none)
    se,               \* cxl_pmu: that task's p->se.sum_exec_runtime, p->se.vruntime, p->mm
    now,              \* bpf_ktime_get_ns()
    classify_ret,     \* the value returned by the last call of classify_io_pattern
    cpu_contexts,     \* cxl_pmu: the entry of the cpu_contexts map for one CPU
    prio_call         \* the last call of calculate_task_priority: arguments and result

VARIABLES
    cpu_usage,      \* cxl_monitoring: the array map cpu_usage
    task_monitor,   \* cxl_monitoring: the hash map task_monitor, by pid
    tp_handler,     \* cxl_monitoring: the tracepoint handler running on each CPU
    nr_switches     \* history: sched_switch events handled on each CPU

VARIABLES
    cxl_sched       \* the cxl_sched loader process: main's position and locals

VARIABLES
    bw_sched        \* the cxl_bandwidth_scheduler process: its globals, main's position

VARIABLES
    bench_main,     \* cxl_memory_test: main's position, the configuration and locals
    stop_flag,      \* cxl_memory_test: std::atomic<bool> stop_flag
    threads,        \* cxl_memory_test: the vector threads, a worker thread each
    thread_stats,   \* cxl_memory_test: the vector thread_stats, by slot
    stat_writers    \* history: the threads that have written each slot of thread_stats

enq_vars == <<enq_vtime>>
select_vars == <<cpu_idle, cpus_ptr, select_call, select_pc>>
stop_vars == <<scx_slice, scx_weight>>
\* the state of the helper functions of cxl_pmu
helper_vars == <<damon_data, se, now, classify_ret, cpu_contexts, prio_call>>

\* the state of the cxl_monitoring program
mon_vars == <<cpu_usage, task_monitor, tp_handler, nr_switches>>
\* the state of the programs other than the two policy engines
\* the state of the cxl_sched loader
loader_vars == <<cxl_sched>>
\* the state of the cxl_bandwidth_scheduler loader
bw_vars == <<bw_sched>>
\* the state of the cxl_memory_test benchmark
bench_vars == <<bench_main, stop_flag, threads, thread_stats, stat_writers>>
prog_vars == <<mon_vars, loader_vars, bw_vars, bench_vars>>
\* all of it but one part
but_mon == <<loader_vars, bw_vars, bench_vars>>
but_loader == <<mon_vars, bw_vars, bench_vars>>
but_bw == <<mon_vars, loader_vars, bench_vars>>
but_bench == <<mon_vars, loader_vars, bw_vars>>

\* the state that the callbacks of the scheduler's queue path do not touch
others == <<enq_vars, select_vars, stop_vars, helper_vars, prog_vars>>

\* all of it but one part
but_enq == <<select_vars, stop_vars, helper_vars, prog_vars>>
but_select == <<enq_vars, stop_vars, helper_vars, prog_vars>>
but_stop == <<enq_vars, select_vars, helper_vars, prog_vars>>
but_helper == <<enq_vars, select_vars, stop_vars, prog_vars>>
but_prog == <<enq_vars, select_vars, stop_vars, helper_vars>>

vars == <<sched_vars, others>>

\* No storage for the task (bpf_task_storage_get without F_CREATE returns NULL).
NULL == [present |-> FALSE, is_vectordb |-> FALSE, is_kworker |-> FALSE]
\* Storage as bpf_task_storage_get(..., F_CREATE) creates it: zeroed.
ZeroCtx == [present |-> TRUE, is_vectordb |-> FALSE, is_kworker |-> FALSE]
NO_VTIME == 0 - 1

\* The guards keep virtual time from running past the model's horizon.
InWindow(v) == S64(v) <= MaxVtime

\* the later of two virtual times in the wrap-safe order
VtimeMax(a, b) == IF vtime_before(a, b) THEN b ELSE a

\* no call of cxl_select_cpu yet
NO_CALL == [task |-> 0, prev_cpu |-> NO_CPU, ret |-> NO_CPU]
\* a task's call of cxl_select_cpu: the line it is at ("none": no call yet, "done":
\* returned), its prev_cpu, the value returned, the CPU whose idle state it
\* cleared, and whether that CPU has become idle again since
NoSelect == [pc |-> "none", prev_cpu |-> NO_CPU, ret |-> NO_CPU, claimed |-> NO_CPU,
             reidled |-> FALSE]

\* enum io_pattern
IoPatterns == {"IO_PATTERN_UNKNOWN", "IO_PATTERN_READ_HEAVY", "IO_PATTERN_WRITE_HEAVY",
               "IO_PATTERN_MIXED", "IO_PATTERN_SEQUENTIAL", "IO_PATTERN_RANDOM"}

\* enum task_type
TaskTypes == {"TASK_TYPE_UNKNOWN", "TASK_TYPE_MOE_VECTORDB", "TASK_TYPE_KWORKER",
              "TASK_TYPE_REGULAR", "TASK_TYPE_LATENCY_SENSITIVE",
              "TASK_TYPE_READ_INTENSIVE", "TASK_TYPE_WRITE_INTENSIVE",
              "TASK_TYPE_BANDWIDTH_TEST"}

\* struct memory_access_pattern, the fields the code reads or writes; present is
\* FALSE for a pid that bpf_map_lookup_elem does not find
PatternT == [present : BOOLEAN, nr_accesses : Nat, total_access_time : Nat,
             last_access_time : Nat, read_bytes : Nat, write_bytes : Nat,
             locality_score : Nat, working_set_size : Nat, io_pattern : IoPatterns]

NoPattern == [present |-> FALSE, nr_accesses |-> 0, total_access_time |-> 0,
              last_access_time |-> 0, read_bytes |-> 0, write_bytes |-> 0,
              locality_score |-> 0, working_set_size |-> 0,
              io_pattern |-> "IO_PATTERN_UNKNOWN"]

\* struct cxl_pmu_metrics
MetricsT == [memory_bandwidth : Nat, cache_hit_rate : Nat, memory_latency : Nat,
             cxl_utilization : Nat, read_bandwidth : Nat, write_bandwidth : Nat,
             last_update_time : Nat]

ZeroMetrics == [memory_bandwidth |-> 0, cache_hit_rate |-> 0, memory_latency |-> 0,
                cxl_utilization |-> 0, read_bandwidth |-> 0, write_bandwidth |-> 0,
                last_update_time |-> 0]

\* struct cpu_ctx, the fields the code reads or writes; present is FALSE for a CPU
\* id that bpf_map_lookup_elem does not find (an id outside the array)
CpuCtxT == [present : BOOLEAN, cxl_metrics : MetricsT, active_read_tasks : Nat,
            active_write_tasks : Nat, last_balance_time : Nat,
            is_cxl_attached : BOOLEAN, is_read_optimized : BOOLEAN,
            is_write_optimized : BOOLEAN]

\* an entry of the array map before anything is written to it: zeroed
ZeroCpuCtx == [present |-> TRUE, cxl_metrics |-> ZeroMetrics, active_read_tasks |-> 0,
               active_write_tasks |-> 0, last_balance_time |-> 0,
               is_cxl_attached |-> FALSE, is_read_optimized |-> FALSE,
               is_write_optimized |-> FALSE]

\* struct task_ctx of cxl_pmu, the fields calculate_task_priority reads or writes
PmuTaskCtxT == [type : TaskTypes, priority_boost : Nat, needs_promotion : BOOLEAN,
                is_bandwidth_critical : BOOLEAN]

ZeroPmuTaskCtx == [type |-> "TASK_TYPE_UNKNOWN", priority_boost |-> 0,
                   needs_promotion |-> FALSE, is_bandwidth_critical |-> FALSE]

NO_PRIO == 0 - 1
\* the calls of calculate_task_priority on a task: its context, the value the last
\* call returned, the number of calls made and the priority_boost the task had
\* before the first of them
NoPrioCall == [tctx |-> ZeroPmuTaskCtx, ret |-> NO_PRIO, calls |-> 0, boost0 |-> 0]
\* no call of classify_io_pattern yet
NO_RET == "none"

\* cxl_sched: what the loader is started with.  argc, argv[1], and whether the
\* object file is there
LoaderArgs == [argc : {1, 2, 3}, argv1 : {"-h", "--help", "cxl_pmu.bpf.o"},
               exists : BOOLEAN]
\* the times the main loop of a loader sleeps before the run is cut off
MaxSleeps == 3
\* errors of bpf_object__load: -EINVAL, -EACCES, -E2BIG
LoadErrors == {0 - 22, 0 - 13, 0 - 7}
\* no exit status yet
NO_STATUS == 0 - 1
\* a loader process at the entry of main: link = NULL (line 64), no handler of
\* SIGINT and SIGTERM installed
LoaderStart(args) ==
    [pc |-> "args", args |-> args, obj |-> "unset", link |-> "NULL",
     handlers |-> FALSE, exiting |-> FALSE, reported |-> FALSE, err |-> 0,
     sleeps |-> 0, status |-> NO_STATUS]

\* cxl_memory_test: the most threads a run is started with (-t)
MaxThreads == 3
\* the blocks a worker copies before it waits for stop_flag
MaxOps == 2
\* config.block_size, scaled
BenchBlockSize == 2
\* config.read_ratio in hundredths (-r takes 0.0 to 1.0, lines 144-148)
ReadRatios == {0, 50, 70, 100}
\* config.num_threads: -t takes any int
NumThreads == (0 - 1)..MaxThreads
\* a ThreadStats as constructed (lines 32-37)
NewThreadStats == [bytes_processed |-> 0, operations |-> 0, operation_type |-> "",
                   thread_id |-> 0 - 1]
\* main at line 366 with the configuration parsed
BenchStart(num_threads, read_ratio) ==
    [pc |-> "start", num_threads |-> num_threads, read_ratio |-> read_ratio,
     num_readers |-> 0, num_writers |-> 0, i |-> 0,
     total_read_bytes |-> 0, total_read_ops |-> 0,
     total_write_bytes |-> 0, total_write_ops |-> 0, status |-> NO_STATUS]

\* cxl_bandwidth_scheduler: the struct_ops maps an object file may hold
BwMaps == {"cxl_ops", "minimal_ops", "none"}
\* the process at line 262 of main, the command line parsed: running = 1,
\* obj = NULL, sched_link = NULL (lines 40-42).  objects and links are what the
\* process holds in libbpf: objects opened and not closed, links attached and
\* not destroyed.  child is the process forked by spawn_bandwidth_test
BwStart(spawn_test) ==
    [pc |-> "signal", spawn_test |-> spawn_test, running |-> 1, handlers |-> FALSE,
     obj |-> "NULL", sched_link |-> "NULL", objects |-> 0, links |-> 0,
     err |-> 0, load_done |-> FALSE, load_ret |-> 0, unloaded |-> FALSE,
     ret_to |-> "none", child |-> "none", sleeps |-> 0, status |-> NO_STATUS]

\* cxl_monitoring: max_entries of the array map cpu_usage (line 32)
CPU_USAGE_ENTRIES == 64
\* the CPUs that sched_switch events are followed on: the first and the last that
\* have an entry in cpu_usage, and the first that has none
MonCpus == {0, CPU_USAGE_ENTRIES - 1, CPU_USAGE_ENTRIES}
\* the pids that are switched in and out; 0 is the idle task
MonPids == {1}
\* the events of all CPUs together that are followed
MaxEvents == 3
\* no entry for the pid in task_monitor
NoStats == [present |-> FALSE, total_runtime |-> 0, total_switches |-> 0,
            last_cpu |-> 0]
\* no handler is running on the CPU
NoHandler == [pc |-> "none", prev_pid |-> 0, next_pid |-> 0, pid |-> 0, val |-> 0]

TypeOK ==
    /\ bench_main \in [pc : {"start", "alloc", "stats", "readers", "writers", "sleep",
                              "store", "join", "results", "print", "caught",
                              "cleanup", "exit", "terminated"},
                        num_threads : NumThreads, read_ratio : ReadRatios,
                        num_readers : NumThreads, num_writers : NumThreads,
                        i : 0..MaxThreads,
                        total_read_bytes : Nat, total_read_ops : Nat,
                        total_write_bytes : Nat, total_write_ops : Nat,
                        status : {0, 1, NO_STATUS}]
    /\ stop_flag \in BOOLEAN
    /\ threads \in Seq([fn : {"reader", "writer"}, slot : 0..(MaxThreads - 1),
                        thread_id : 0..(MaxThreads - 1),
                        pc : {"238", "241", "243", "done"}, joined : BOOLEAN])
    /\ Len(threads) <= MaxThreads
    /\ DOMAIN thread_stats \subseteq 0..(MaxThreads - 1)
    /\ \A s \in DOMAIN thread_stats :
           thread_stats[s] \in [bytes_processed : Nat, operations : 0..MaxOps,
                                operation_type : {"", "read", "write"},
                                thread_id : (0 - 1)..(MaxThreads - 1)]
    /\ stat_writers \in [0..(MaxThreads - 1) -> SUBSET (1..MaxThreads)]
    /\ bw_sched \in [pc : {"signal", "rlimit", "open", "load", "find", "attach",
                            "loaded", "cleanup", "check", "configure", "spawn",
                            "monitor", "unload", "unload_obj", "return", "exit",
                            "killed"},
                      spawn_test : BOOLEAN, running : {0, 1}, handlers : BOOLEAN,
                      obj : {"NULL", "open", "loaded"},
                      sched_link : {"NULL", "attached"},
                      objects : {0, 1}, links : {0, 1},
                      err : LoadErrors \cup {0, 0 - 1}, load_done : BOOLEAN,
                      load_ret : LoadErrors \cup {0, 0 - 1}, unloaded : BOOLEAN,
                      ret_to : {"none", "279", "288", "298"},
                      child : {"none", "running", "exited"},
                      sleeps : 0..MaxSleeps, status : {0, 1, NO_STATUS}]
    /\ cxl_sched \in [pc : {"args", "access", "rlimit", "signal", "open", "load",
                             "report", "loop", "cleanup", "close", "exit", "killed"},
                       args : LoaderArgs,
                       obj : {"unset", "open", "loaded", "closed"},
                       link : {"NULL", "attached", "destroyed"},
                       handlers : BOOLEAN, exiting : BOOLEAN, reported : BOOLEAN,
                       err : LoadErrors \cup {0}, sleeps : 0..MaxSleeps,
                       status : 0..255 \cup {NO_STATUS}]
    /\ cpu_usage \in [0..(CPU_USAGE_ENTRIES - 1) -> Nat]
    /\ task_monitor \in [MonPids -> [present : BOOLEAN, total_runtime : Nat,
                                      total_switches : Nat, last_cpu : MonCpus \cup {0}]]
    /\ tp_handler \in [MonCpus -> [pc : {"none", "54", "57", "65", "70", "73", "81",
                                         "97"},
                                    prev_pid : MonPids \cup {0},
                                    next_pid : MonPids \cup {0},
                                    pid : MonPids \cup {0}, val : Nat]]
    /\ nr_switches \in [MonCpus -> Nat]
    /\ damon_data \in PatternT
    /\ se \in [sum_exec_runtime : Nat, vruntime : Nat, mm : BOOLEAN]
    /\ now \in Nat
    /\ classify_ret \in IoPatterns \cup {NO_RET}
    /\ cpu_contexts \in CpuCtxT
    /\ prio_call \in [tctx : PmuTaskCtxT, ret : Nat \cup {NO_PRIO}, calls : Nat,
                       boost0 : Nat]
    /\ task_state \in [Tasks -> {"none", "ready", "selected", "enqueue:83",
                                 "enqueue:90", "enqueue:105", "queued", "local",
                                 "running:117", "running"}]
    /\ enq_vtime \in [Tasks -> 0..(Modulus - 1)]
    /\ cpu_idle \in SUBSET Cpus
    /\ cpus_ptr \in [Tasks -> SUBSET Cpus]
    /\ select_pc \in [Tasks -> [pc : {"none", "67", "done"},
                                 prev_cpu : Cpus \cup {NO_CPU},
                                 ret : Cpus \cup {NO_CPU},
                                 claimed : Cpus \cup {NO_CPU}, reidled : BOOLEAN]]
    /\ select_call \in [task : Tasks \cup {0}, prev_cpu : Cpus \cup {NO_CPU},
                         ret : Cpus \cup {NO_CPU}]
    /\ scx_slice \in [Tasks -> 0..SCX_SLICE_DFL]
    /\ scx_weight \in [Tasks -> Weights]
    /\ comm \in [Tasks -> Comms]
    /\ dsq_vtime \in [Tasks -> 0..(Modulus - 1)]
    /\ task_cpu \in [Tasks -> Cpus \cup {NO_CPU}]
    /\ task_ctx_stor \in [Tasks -> [present : BOOLEAN, is_vectordb : BOOLEAN,
                                   is_kworker : BOOLEAN]]
    /\ global_vtime \in 0..(Modulus - 1)
    /\ dsq \in Seq([task : Tasks, priq : BOOLEAN])
    /\ started_vtime \in {NO_VTIME} \cup 0..(Modulus - 1)

\* no call of cxl_enqueue is in progress
EnqInit == enq_vtime = [p \in Tasks |-> 0]

\* no call of cxl_select_cpu has been made, no CPU is idle and every task may run
\* on every CPU
SelectInit ==
    /\ cpu_idle = {}
    /\ cpus_ptr = [p \in Tasks |-> Cpus]
    /\ select_call = NO_CALL
    /\ select_pc = [p \in Tasks |-> NoSelect]

\* every task has a whole slice and the default weight
StopInit ==
    /\ scx_slice = [p \in Tasks |-> SCX_SLICE_DFL]
    /\ scx_weight = [p \in Tasks |-> 100]

\* the helper functions of cxl_pmu have not been called: no pid is in
\* damon_data, the entry of cpu_contexts is zeroed
HelperInit ==
    /\ damon_data = NoPattern
    /\ se = [sum_exec_runtime |-> 0, vruntime |-> 0, mm |-> TRUE]
    /\ now = 0
    /\ classify_ret = NO_RET
    /\ cpu_contexts = ZeroCpuCtx
    /\ prio_call = NoPrioCall

\* cxl_monitoring has just been attached: the array map is zeroed, the hash map
\* is empty and no event has been handled
MonInit ==
    /\ cpu_usage = [c \in 0..(CPU_USAGE_ENTRIES - 1) |-> 0]
    /\ task_monitor = [pid \in MonPids |-> NoStats]
    /\ tp_handler = [c \in MonCpus |-> NoHandler]
    /\ nr_switches = [c \in MonCpus |-> 0]

\* the loader has been started with the default object file, which is there
LoaderInit ==
    cxl_sched = LoaderStart([argc |-> 1, argv1 |-> "cxl_pmu.bpf.o", exists |-> TRUE])

\* cxl_bandwidth_scheduler has been started without -T
BwInit == bw_sched = BwStart(FALSE)

\* cxl_memory_test has been started with the most threads, half of them readers;
\* no thread and no slot exists before line 563
BenchInitWith(num_threads, read_ratio) ==
    /\ bench_main = BenchStart(num_threads, read_ratio)
    /\ stop_flag = FALSE
    /\ threads = <<>>
    /\ thread_stats = [s \in {} |-> NewThreadStats]
    /\ stat_writers = [s \in 0..(MaxThreads - 1) |-> {}]
BenchInit == BenchInitWith(MaxThreads, 50)

ProgInit == MonInit /\ LoaderInit /\ BwInit /\ BenchInit

OthersInit == EnqInit /\ SelectInit /\ StopInit /\ HelperInit /\ ProgInit

\* no task has been handed to the scheduler yet
SchedInit ==
    /\ task_state = [p \in Tasks |-> "none"]
    /\ comm = [p \in Tasks |-> "bash"]
    /\ dsq_vtime = [p \in Tasks |-> 0]
    /\ task_cpu = [p \in Tasks |-> NO_CPU]
    /\ task_ctx_stor = [p \in Tasks |-> NULL]
    /\ global_vtime = 0
    /\ dsq = <<>>
    /\ started_vtime = NO_VTIME

Init == OthersInit /\ SchedInit

\* ------------------------------------------------------------- the host's queue
\* The list of a dispatch queue: each entry is a task and whether it was linked
\* by virtual time (on the queue's tree) or first-in first-out.
Entry(p, priq) == [task |-> p, priq |-> priq]

InDsq(q, p) == \E i \in 1..Len(q) : q[i].task = p

\* scx_bpf_dsq_insert(p, FALLBACK_DSQ_ID, slice, enq_flags): at the tail of the list.
scx_bpf_dsq_insert(q, p) == Append(q, Entry(p, FALSE))

\* The vtime-linked entry after which a task of virtual time v is linked: the last
\* one that v is not before (0: none, the task goes to the head of the list).
PriqPrev(q, v, vt) ==
    LET S == {i \in 1..Len(q) : q[i].priq /\ ~vtime_before(v, vt[q[i].task])}
    IN  IF S = {} THEN 0 ELSE CHOOSE i \in S : \A j \in S : j <= i

\* scx_bpf_dsq_insert_vtime(p, FALLBACK_DSQ_ID, slice, vtime, enq_flags)
scx_bpf_dsq_insert_vtime(q, p, v, vt) ==
    LET i == PriqPrev(q, v, vt)
    IN  SubSeq(q, 1, i) \o <<Entry(p, TRUE)>> \o SubSeq(q, i + 1, Len(q))

\* ------------------------------------------------------------- cxl_minimal
\* cxl_init_task: ok is whether bpf_task_storage_get(..., F_CREATE) returned storage.
cxl_init_task(p, ok, name) ==
    /\ task_state[p] = "none"
    /\ task_state' = [task_state EXCEPT ![p] = "ready"]
    /\ comm' = [comm EXCEPT ![p] = name]
    /\ task_ctx_stor' = [task_ctx_stor EXCEPT ![p] = IF ok THEN ZeroCtx ELSE NULL]
    /\ UNCHANGED <<dsq_vtime, task_cpu, global_vtime, dsq, started_vtime>>
    /\ UNCHANGED others

ENOMEM == 12

\* cxl_init_task lines 129-136: the value returned to the host.
cxl_init_task_ret(ok) == IF ok THEN 0 ELSE 0 - ENOMEM

\* cxl_enqueue lines 87-91 with an else branch that clears the flags of a task
\* that has one set.
ClassifyIfNeeded_reset(tctx, name) ==
    IF ~tctx.is_vectordb /\ ~tctx.is_kworker
    THEN [tctx EXCEPT !.is_vectordb = is_vectordb_task(name),
                      !.is_kworker = is_kworker_task(name)]
    ELSE [tctx EXCEPT !.is_vectordb = FALSE, !.is_kworker = FALSE]

\* cxl_enqueue lines 87-91: the task type is read from the name while no flag is set.
ClassifyIfNeeded(tctx, name) ==
    IF ~tctx.is_vectordb /\ ~tctx.is_kworker
    THEN [tctx EXCEPT !.is_vectordb = is_vectordb_task(name),
                      !.is_kworker = is_kworker_task(name)]
    ELSE tctx

\* cxl_enqueue with lines 93-95 left out: the virtual time is not raised to
\* global_vtime - slice.
EnqueueVtime_noclamp(vtime, gv, tctx) ==
    LET slice == SCX_SLICE_DFL
        v2 == IF tctx.is_vectordb THEN U64(vtime - slice) ELSE vtime
        v3 == IF tctx.is_kworker THEN U64(v2 + slice) ELSE v2
    IN  v3

\* cxl_enqueue with a bonus of two slices at lines 98-99.
EnqueueVtime_boost2(vtime, gv, tctx) ==
    LET slice == SCX_SLICE_DFL
        v1 == IF vtime_before(vtime, U64(gv - slice)) THEN U64(gv - slice) ELSE vtime
        v2 == IF tctx.is_vectordb THEN U64(v1 - 2 * slice) ELSE v1
        v3 == IF tctx.is_kworker THEN U64(v2 + slice) ELSE v2
    IN  v3

\* cxl_enqueue with the limit of lines 93-95 at global_vtime itself.
EnqueueVtime_clampgv(vtime, gv, tctx) ==
    LET slice == SCX_SLICE_DFL
        v1 == IF vtime_before(vtime, gv) THEN gv ELSE vtime
        v2 == IF tctx.is_vectordb THEN U64(v1 - slice) ELSE v1
        v3 == IF tctx.is_kworker THEN U64(v2 + slice) ELSE v2
    IN  v3

\* cxl_enqueue lines 93-103: the virtual time the task is inserted with.
EnqueueVtime(vtime, gv, tctx) ==
    LET slice == SCX_SLICE_DFL
        v1 == IF vtime_before(vtime, U64(gv - slice)) THEN U64(gv - slice) ELSE vtime
        v2 == IF tctx.is_vectordb THEN U64(v1 - slice) ELSE v1
        v3 == IF tctx.is_kworker THEN U64(v2 + slice) ELSE v2
    IN  v3

\* cxl_enqueue with the insert of the fallback path left out.
cxl_enqueue_nofallback(p, got) ==
    /\ task_state[p] = "ready"
    /\ ~got => task_ctx_stor[p] = NULL
    /\ IF ~got
       THEN UNCHANGED <<dsq, dsq_vtime, task_ctx_stor>>
       ELSE LET stor == IF task_ctx_stor[p] = NULL THEN ZeroCtx ELSE task_ctx_stor[p]
                tctx == ClassifyIfNeeded(stor, comm[p])
                vtime == EnqueueVtime(dsq_vtime[p], global_vtime, tctx)
            IN  /\ InWindow(vtime)
                /\ task_ctx_stor' = [task_ctx_stor EXCEPT ![p] = tctx]
                /\ dsq_vtime' = [dsq_vtime EXCEPT ![p] = vtime]
                /\ dsq' = scx_bpf_dsq_insert_vtime(dsq, p, vtime, dsq_vtime)
    /\ task_state' = [task_state EXCEPT ![p] = "queued"]
    /\ UNCHANGED <<comm, task_cpu, global_vtime, started_vtime>>
    /\ UNCHANGED others

\* cxl_enqueue with a fallback path that clamps the virtual time before it inserts.
cxl_enqueue_fallbackclamp(p, got) ==
    /\ task_state[p] = "ready"
    /\ ~got => task_ctx_stor[p] = NULL
    /\ IF ~got
       THEN /\ dsq' = scx_bpf_dsq_insert(dsq, p)
            /\ dsq_vtime' = [dsq_vtime EXCEPT ![p] =
                                EnqueueVtime(@, global_vtime, ZeroCtx)]
            /\ UNCHANGED task_ctx_stor
       ELSE LET stor == IF task_ctx_stor[p] = NULL THEN ZeroCtx ELSE task_ctx_stor[p]
                tctx == ClassifyIfNeeded(stor, comm[p])
                vtime == EnqueueVtime(dsq_vtime[p], global_vtime, tctx)
            IN  /\ InWindow(vtime)
                /\ task_ctx_stor' = [task_ctx_stor EXCEPT ![p] = tctx]
                /\ dsq_vtime' = [dsq_vtime EXCEPT ![p] = vtime]
                /\ dsq' = scx_bpf_dsq_insert_vtime(dsq, p, vtime, dsq_vtime)
    /\ task_state' = [task_state EXCEPT ![p] = "queued"]
    /\ UNCHANGED <<comm, task_cpu, global_vtime, started_vtime>>
    /\ UNCHANGED others

\* cxl_enqueue: got is whether bpf_task_storage_get(..., F_CREATE) returned storage
\* (it returns NULL only when the task has none and none can be allocated).
cxl_enqueue(p, got) ==
    /\ task_state[p] = "ready"
    /\ ~got => task_ctx_stor[p] = NULL
    /\ IF ~got
       THEN /\ dsq' = scx_bpf_dsq_insert(dsq, p)
            /\ UNCHANGED <<dsq_vtime, task_ctx_stor>>
       ELSE LET stor == IF task_ctx_stor[p] = NULL THEN ZeroCtx ELSE task_ctx_stor[p]
                tctx == ClassifyIfNeeded(stor, comm[p])
                vtime == EnqueueVtime(dsq_vtime[p], global_vtime, tctx)
            IN  /\ InWindow(vtime)
                /\ task_ctx_stor' = [task_ctx_stor EXCEPT ![p] = tctx]
                /\ dsq_vtime' = [dsq_vtime EXCEPT ![p] = vtime]
                /\ dsq' = scx_bpf_dsq_insert_vtime(dsq, p, vtime, dsq_vtime)
    /\ task_state' = [task_state EXCEPT ![p] = "queued"]
    /\ UNCHANGED <<comm, task_cpu, global_vtime, started_vtime>>
    /\ UNCHANGED others

\* A move to the local queue that leaves the task in the list of the queue.
scx_bpf_dsq_move_to_local_keep(cpu) ==
    IF dsq = <<>>
    THEN UNCHANGED vars
    ELSE /\ task_state' = [task_state EXCEPT ![Head(dsq).task] = "local"]
         /\ task_cpu' = [task_cpu EXCEPT ![Head(dsq).task] = cpu]
         /\ UNCHANGED <<comm, dsq_vtime, task_ctx_stor, global_vtime, started_vtime, dsq>>
         /\ UNCHANGED others

\* scx_bpf_dsq_move_to_local(FALLBACK_DSQ_ID): the first task of the list, if any,
\* moves to the local queue of the calling CPU.
scx_bpf_dsq_move_to_local(cpu) ==
    IF dsq = <<>>
    THEN UNCHANGED vars
    ELSE /\ dsq' = Tail(dsq)
         /\ task_state' = [task_state EXCEPT ![Head(dsq).task] = "local"]
         /\ task_cpu' = [task_cpu EXCEPT ![Head(dsq).task] = cpu]
         /\ UNCHANGED <<comm, dsq_vtime, task_ctx_stor, global_vtime, started_vtime>>
         /\ UNCHANGED others

\* cxl_dispatch, called by a CPU that has nothing to run.
cxl_dispatch(cpu) ==
    /\ \A p \in Tasks : task_cpu[p] # cpu
    /\ scx_bpf_dsq_move_to_local(cpu)

\* cxl_running without the comparison of line 116.
RunningVtime_nocmp(gv, vtime) == vtime

\* cxl_running without the assignment of line 117.
RunningVtime_stale(gv, vtime) == gv

\* cxl_running lines 116-117: the value global_vtime has after the call.
RunningVtime(gv, vtime) == IF vtime_before(gv, vtime) THEN vtime ELSE gv

RunStart(p) ==
    started_vtime' = IF started_vtime = NO_VTIME THEN dsq_vtime[p]
                     ELSE VtimeMax(started_vtime, dsq_vtime[p])

\* cxl_running, called alone.
cxl_running(p) ==
    /\ task_state[p] = "local"
    /\ global_vtime' = RunningVtime(global_vtime, dsq_vtime[p])
    /\ task_state' = [task_state EXCEPT ![p] = "running"]
    /\ RunStart(p)
    /\ UNCHANGED <<comm, dsq_vtime, task_cpu, task_ctx_stor, dsq>>
    /\ UNCHANGED others

\* cxl_stopping charging what is left of the slice.
StoppingCharge_left(slice, weight) == (slice * 100) \div weight

\* cxl_stopping line 122: the advance of the task's virtual time.
StoppingCharge(slice, weight) == ((SCX_SLICE_DFL - slice) * 100) \div weight

\* cxl_stopping: slice is what the host left of p->scx.slice, weight is p->scx.weight.
cxl_stopping(p, slice, weight) ==
    /\ task_state[p] = "running"
    /\ InWindow(U64(dsq_vtime[p] + StoppingCharge(slice, weight)))
    /\ dsq_vtime' = [dsq_vtime EXCEPT ![p] = U64(@ + StoppingCharge(slice, weight))]
    /\ task_state' = [task_state EXCEPT ![p] = "ready"]
    /\ task_cpu' = [task_cpu EXCEPT ![p] = NO_CPU]
    /\ UNCHANGED <<comm, task_ctx_stor, global_vtime, dsq, started_vtime>>
    /\ UNCHANGED others

\* cxl_exit_task does nothing; the host frees the task and its storage.
cxl_exit_task(p) ==
    /\ task_state[p] = "ready"
    /\ task_state' = [task_state EXCEPT ![p] = "none"]
    /\ comm' = [comm EXCEPT ![p] = "bash"]
    /\ dsq_vtime' = [dsq_vtime EXCEPT ![p] = 0]
    /\ task_ctx_stor' = [task_ctx_stor EXCEPT ![p] = NULL]
    /\ UNCHANGED <<task_cpu, global_vtime, dsq, started_vtime>>
    /\ UNCHANGED others

InitTask == \E p \in Tasks, ok \in BOOLEAN, name \in Comms : cxl_init_task(p, ok, name)
Enqueue == \E p \in Tasks, got \in BOOLEAN : cxl_enqueue(p, got)
Dispatch == \E cpu \in Cpus : cxl_dispatch(cpu)
Running == \E p \in Tasks : cxl_running(p)
Stopping ==
    \E p \in Tasks, slice \in 0..SCX_SLICE_DFL, weight \in Weights :
        cxl_stopping(p, slice, weight)
ExitTask == \E p \in Tasks : cxl_exit_task(p)

\* The callbacks called one at a time.
Next == InitTask \/ Enqueue \/ Dispatch \/ Running \/ Stopping \/ ExitTask

Spec == Init /\ [][Next]_vars

\* ------------------------------------------------------------- concurrent cxl_running
\* cxl_running on several CPUs at once: the read of global_vtime with the
\* comparison (line 116) and the write (line 117) are separate steps.
cxl_running_read(p) ==
    /\ task_state[p] = "local"
    /\ task_state' = [task_state EXCEPT ![p] =
           IF vtime_before(global_vtime, dsq_vtime[p]) THEN "running:117" ELSE "running"]
    /\ RunStart(p)
    /\ UNCHANGED <<comm, dsq_vtime, task_cpu, task_ctx_stor, global_vtime, dsq>>
    /\ UNCHANGED others

cxl_running_write(p) ==
    /\ task_state[p] = "running:117"
    /\ global_vtime' = dsq_vtime[p]
    /\ task_state' = [task_state EXCEPT ![p] = "running"]
    /\ UNCHANGED <<comm, dsq_vtime, task_cpu, task_ctx_stor, dsq, started_vtime>>
    /\ UNCHANGED others

RunningRead == \E p \in Tasks : cxl_running_read(p)
RunningWrite == \E p \in Tasks : cxl_running_write(p)

NextConc ==
    InitTask \/ Enqueue \/ Dispatch \/ RunningRead \/ RunningWrite \/ Stopping \/ ExitTask

SpecConc == Init /\ [][NextConc]_vars

\* ------------------------------------------------------------- concurrent cxl_enqueue
\* cxl_enqueue and cxl_dispatch on several CPUs at once: cxl_enqueue runs up to its
\* call of the host's insert (lines 81-103), other CPUs take their steps, and the
\* insert (line 83 or line 105) is one step of the host on the queue.
cxl_enqueue_get(p, got) ==
    /\ task_state[p] = "ready"
    /\ ~got => task_ctx_stor[p] = NULL
    /\ IF ~got
       THEN /\ task_state' = [task_state EXCEPT ![p] = "enqueue:83"]
            /\ UNCHANGED <<task_ctx_stor, enq_vtime>>
       ELSE LET stor == IF task_ctx_stor[p] = NULL THEN ZeroCtx ELSE task_ctx_stor[p]
                tctx == ClassifyIfNeeded(stor, comm[p])
                vtime == EnqueueVtime(dsq_vtime[p], global_vtime, tctx)
            IN  /\ InWindow(vtime)
                /\ task_ctx_stor' = [task_ctx_stor EXCEPT ![p] = tctx]
                /\ enq_vtime' = [enq_vtime EXCEPT ![p] = vtime]
                /\ task_state' = [task_state EXCEPT ![p] = "enqueue:105"]
    /\ UNCHANGED <<comm, dsq_vtime, task_cpu, global_vtime, dsq, started_vtime>>
    /\ UNCHANGED but_enq

cxl_enqueue_insert(p) ==
    /\ task_state[p] \in {"enqueue:83", "enqueue:105"}
    /\ IF task_state[p] = "enqueue:83"
       THEN /\ dsq' = scx_bpf_dsq_insert(dsq, p)
            /\ UNCHANGED dsq_vtime
       ELSE /\ dsq' = scx_bpf_dsq_insert_vtime(dsq, p, enq_vtime[p], dsq_vtime)
            /\ dsq_vtime' = [dsq_vtime EXCEPT ![p] = enq_vtime[p]]
    /\ enq_vtime' = [enq_vtime EXCEPT ![p] = 0]
    /\ task_state' = [task_state EXCEPT ![p] = "queued"]
    /\ UNCHANGED <<comm, task_cpu, task_ctx_stor, global_vtime, started_vtime>>
    /\ UNCHANGED but_enq

EnqueueGet == \E p \in Tasks, got \in BOOLEAN : cxl_enqueue_get(p, got)
EnqueueInsert == \E p \in Tasks : cxl_enqueue_insert(p)

NextEnq ==
    InitTask \/ EnqueueGet \/ EnqueueInsert \/ Dispatch \/ Running \/ Stopping \/ ExitTask

SpecEnq == Init /\ [][NextEnq]_vars

\* ------------------------------------------------------------- cxl_enqueue and p->comm
\* cxl_enqueue reads p->comm twice, once in is_vectordb_task (line 89) and once in
\* is_kworker_task (line 90), while the host may write the name from another CPU
\* (prctl(PR_SET_NAME), exec, /proc/<pid>/task/<tid>/comm): the name is written
\* under task_lock, which cxl_enqueue does not hold.

\* cxl_enqueue lines 80-89 for a task that has a context with no flag set: the
\* first read of the name.
cxl_enqueue_vectordb(p) ==
    /\ task_state[p] = "ready"
    /\ LET stor == IF task_ctx_stor[p] = NULL THEN ZeroCtx ELSE task_ctx_stor[p]
       IN  /\ ~stor.is_vectordb /\ ~stor.is_kworker
           /\ task_ctx_stor' = [task_ctx_stor EXCEPT ![p] =
                                   [stor EXCEPT !.is_vectordb = is_vectordb_task(comm[p])]]
    /\ task_state' = [task_state EXCEPT ![p] = "enqueue:90"]
    /\ UNCHANGED <<comm, dsq_vtime, task_cpu, global_vtime, dsq, started_vtime>>
    /\ UNCHANGED others

\* cxl_enqueue lines 90-105 of the same call: the second read of the name, the
\* virtual time and the insert.
cxl_enqueue_kworker(p) ==
    /\ task_state[p] = "enqueue:90"
    /\ LET tctx == [task_ctx_stor[p] EXCEPT !.is_kworker = is_kworker_task(comm[p])]
           vtime == EnqueueVtime(dsq_vtime[p], global_vtime, tctx)
       IN  /\ InWindow(vtime)
           /\ task_ctx_stor' = [task_ctx_stor EXCEPT ![p] = tctx]
           /\ dsq_vtime' = [dsq_vtime EXCEPT ![p] = vtime]
           /\ dsq' = scx_bpf_dsq_insert_vtime(dsq, p, vtime, dsq_vtime)
    /\ task_state' = [task_state EXCEPT ![p] = "queued"]
    /\ UNCHANGED <<comm, task_cpu, global_vtime, started_vtime>>
    /\ UNCHANGED others

\* the host gives the task another name
set_task_comm(p, name) ==
    /\ task_state[p] # "none"
    /\ name # comm[p]
    /\ comm' = [comm EXCEPT ![p] = name]
    /\ UNCHANGED <<task_state, dsq_vtime, task_cpu, task_ctx_stor, global_vtime, dsq,
                   started_vtime>>
    /\ UNCHANGED others

EnqueueVectordb == \E p \in Tasks : cxl_enqueue_vectordb(p)
EnqueueKworker == \E p \in Tasks : cxl_enqueue_kworker(p)
SetTaskComm == \E p \in Tasks, name \in Comms : set_task_comm(p, name)
\* a task of the default weight stops with its slice used up
StoppingFull == \E p \in Tasks : cxl_stopping(p, 0, 100)

NextComm ==
    \/ InitTask \/ Enqueue \/ EnqueueVectordb \/ EnqueueKworker \/ SetTaskComm
    \/ Dispatch \/ Running \/ StoppingFull \/ ExitTask

SpecComm == Init /\ [][NextComm]_vars

\* ------------------------------------------------------------- cxl_select_cpu
\* cxl_select_cpu lines 65-70 with the test of p->cpus_ptr left out.
SelectCpuFast_nomask(tctx, allowed, idle) ==
    IF ~tctx.present \/ ~tctx.is_vectordb THEN NO_CPU
    ELSE IF 0 \in idle THEN 0
    ELSE IF 1 \in idle THEN 1
    ELSE NO_CPU

\* cxl_select_cpu lines 58-70: the CPU whose idle state the call claims with
\* scx_bpf_test_and_clear_cpu_idle, or NO_CPU when it claims none.
SelectCpuFast(tctx, allowed, idle) ==
    IF ~tctx.present \/ ~tctx.is_vectordb THEN NO_CPU
    ELSE IF 0 \in allowed /\ 0 \in idle THEN 0
    ELSE IF 1 \in allowed /\ 1 \in idle THEN 1
    ELSE NO_CPU

\* cxl_select_cpu(p, prev_cpu, wake_flags), called when p wakes up
cxl_select_cpu(p, prev_cpu) ==
    LET cpu == SelectCpuFast(task_ctx_stor[p], cpus_ptr[p], cpu_idle)
    IN  /\ task_state[p] = "ready"
        /\ cpu_idle' = cpu_idle \ {cpu}
        /\ select_call' = [task |-> p, prev_cpu |-> prev_cpu,
                           ret |-> IF cpu = NO_CPU THEN prev_cpu ELSE cpu]
        /\ UNCHANGED <<sched_vars, but_select, cpus_ptr, select_pc>>

\* the host: a CPU that has nothing to run becomes idle
update_idle(cpu) ==
    /\ cpu \notin cpu_idle
    /\ cpu_idle' = cpu_idle \cup {cpu}
    /\ select_pc' = [p \in Tasks |->
                        IF select_pc[p].claimed = cpu
                        THEN [select_pc[p] EXCEPT !.reidled = TRUE]
                        ELSE select_pc[p]]
    /\ UNCHANGED <<sched_vars, but_select, cpus_ptr, select_call>>

\* the contexts a task of a given name can have: none, a fresh one, a classified one
CtxOf(name) == {NULL, ZeroCtx, ClassifyIfNeeded(ZeroCtx, name)}

\* Tasks that are about to wake up: every name, every context a task of that name
\* can have, every allowed mask and every idle mask.  The state that
\* cxl_select_cpu does not read is as at the start.
InitSel ==
    /\ task_state = [p \in Tasks |-> "ready"]
    /\ comm \in [Tasks -> Comms]
    /\ task_ctx_stor \in [Tasks -> UNION {CtxOf(name) : name \in Comms}]
    /\ \A p \in Tasks : task_ctx_stor[p] \in CtxOf(comm[p])
    /\ dsq_vtime = [p \in Tasks |-> 0]
    /\ task_cpu = [p \in Tasks |-> NO_CPU]
    /\ global_vtime = 0
    /\ dsq = <<>>
    /\ started_vtime = NO_VTIME
    /\ EnqInit /\ StopInit /\ HelperInit /\ ProgInit
    /\ cpu_idle \in SUBSET Cpus
    /\ cpus_ptr \in [Tasks -> (SUBSET Cpus) \ {{}}]
    /\ select_call = NO_CALL
    /\ select_pc = [p \in Tasks |-> NoSelect]

SelectCpu == \E p \in Tasks, prev_cpu \in Cpus : cxl_select_cpu(p, prev_cpu)
UpdateIdle == \E cpu \in Cpus : update_idle(cpu)

NextSel == SelectCpu \/ UpdateIdle

SpecSel == InitSel /\ [][NextSel]_vars

\* ------------------------------------------------------------- concurrent cxl_select_cpu
\* a test of the idle state of a CPU that does not clear it
scx_bpf_test_and_clear_cpu_idle_noclear(cpu, idle) ==
    [ret |-> cpu \in idle, idle |-> idle]

\* scx_bpf_test_and_clear_cpu_idle(cpu): one atomic test-and-clear of the CPU's
\* bit in the host's idle mask; the value returned and the mask afterwards
scx_bpf_test_and_clear_cpu_idle(cpu, idle) ==
    [ret |-> cpu \in idle, idle |-> idle \ {cpu}]

\* the call of task p returns ret, having cleared the idle state of claimed
SelectReturn(p, prev_cpu, ret, claimed) ==
    select_pc' = [select_pc EXCEPT ![p] =
                     [pc |-> "done", prev_cpu |-> prev_cpu, ret |-> ret,
                      claimed |-> claimed, reidled |-> FALSE]]

\* cxl_select_cpu lines 58-66: the lookup of the context and the try of CPU 0
cxl_select_cpu_65(p, prev_cpu) ==
    /\ task_state[p] = "ready"
    /\ select_pc[p].pc \in {"none", "done"}
    /\ LET tctx == task_ctx_stor[p]
           try == scx_bpf_test_and_clear_cpu_idle(0, cpu_idle)
       IN  IF ~tctx.present \/ ~tctx.is_vectordb
           THEN /\ SelectReturn(p, prev_cpu, prev_cpu, NO_CPU)
                /\ UNCHANGED cpu_idle
           ELSE IF 0 \in cpus_ptr[p]
           THEN /\ cpu_idle' = try.idle
                /\ IF try.ret
                   THEN SelectReturn(p, prev_cpu, 0, 0)
                   ELSE select_pc' = [select_pc EXCEPT ![p] =
                                         [NoSelect EXCEPT !.pc = "67",
                                                          !.prev_cpu = prev_cpu]]
           ELSE /\ select_pc' = [select_pc EXCEPT ![p] =
                                     [NoSelect EXCEPT !.pc = "67",
                                                      !.prev_cpu = prev_cpu]]
                /\ UNCHANGED cpu_idle
    /\ UNCHANGED <<sched_vars, but_select, cpus_ptr, select_call>>

\* cxl_select_cpu lines 67-71: the try of CPU 1 and the return of prev_cpu
cxl_select_cpu_67(p) ==
    /\ select_pc[p].pc = "67"
    /\ LET prev_cpu == select_pc[p].prev_cpu
           try == scx_bpf_test_and_clear_cpu_idle(1, cpu_idle)
       IN  IF 1 \in cpus_ptr[p]
           THEN /\ cpu_idle' = try.idle
                /\ IF try.ret
                   THEN SelectReturn(p, prev_cpu, 1, 1)
                   ELSE SelectReturn(p, prev_cpu, prev_cpu, NO_CPU)
           ELSE /\ SelectReturn(p, prev_cpu, prev_cpu, NO_CPU)
                /\ UNCHANGED cpu_idle
    /\ UNCHANGED <<sched_vars, but_select, cpus_ptr, select_call>>

SelectCpu65 == \E p \in Tasks, prev_cpu \in Cpus : cxl_select_cpu_65(p, prev_cpu)
SelectCpu67 == \E p \in Tasks : cxl_select_cpu_67(p)

\* calls of cxl_select_cpu for different tasks, on different CPUs, interleaved at
\* their calls of scx_bpf_test_and_clear_cpu_idle, while CPUs become idle
NextSelConc == SelectCpu65 \/ SelectCpu67 \/ UpdateIdle

SpecSelConc == InitSel /\ [][NextSelConc]_vars

\* ------------------------------------------------------------- cxl_stopping
\* Tasks that are running, each on its own CPU, started at virtual time 0 as
\* regular tasks; the host has left each any part of its slice and given it any
\* weight.  cxl_stopping is called with the task's own p->scx.slice and
\* p->scx.weight.
InitStop ==
    /\ task_state = [p \in Tasks |-> "running"]
    /\ comm = [p \in Tasks |-> "bash"]
    /\ task_ctx_stor = [p \in Tasks |-> ZeroCtx]
    /\ dsq_vtime = [p \in Tasks |-> 0]
    /\ task_cpu \in [Tasks -> Cpus]
    /\ \A p, q \in Tasks : task_cpu[p] = task_cpu[q] => p = q
    /\ global_vtime = 0
    /\ dsq = <<>>
    /\ started_vtime = 0
    /\ EnqInit /\ SelectInit /\ HelperInit /\ ProgInit
    /\ scx_slice \in [Tasks -> 0..SCX_SLICE_DFL]
    /\ scx_weight \in [Tasks -> Weights]

StoppingOwn == \E p \in Tasks : cxl_stopping(p, scx_slice[p], scx_weight[p])

NextStop == StoppingOwn

SpecStop == InitStop /\ [][NextStop]_vars

\* ------------------------------------------------------------- fair scheduling
\* The tasks share one CPU (cpus_ptr allows CPU 0 only).  Whenever the CPU has
\* nothing to run it calls cxl_dispatch, dispatched tasks start running, running
\* tasks stop, and a task that is run again and again uses up its whole slice, at
\* the default weight, again and again.
Stop(p) == \E slice \in 0..SCX_SLICE_DFL, weight \in Weights : cxl_stopping(p, slice, weight)

StopFull(p) == cxl_stopping(p, 0, 100)

DispatchCpu0 == cxl_dispatch(0)

Fairness ==
    /\ WF_vars(DispatchCpu0)
    /\ \A p \in Tasks : WF_vars(cxl_running(p))
    /\ \A p \in Tasks : WF_vars(Stop(p))
    /\ \A p \in Tasks : SF_vars(StopFull(p))

\* The callbacks called one at a time on tasks that do not exit.
NextFair == InitTask \/ Enqueue \/ DispatchCpu0 \/ Running \/ Stopping

SpecFair == Init /\ [][NextFair]_vars /\ Fairness

\* ------------------------------------------------------------- cxl_pmu
\* The callbacks of src/ebpf/cxl_pmu.bpf.c under the same host.  Nothing is ever
\* inserted into a queue, so no task reaches cxl_running or cxl_stopping.
pmu_cxl_init_task(p, name) ==
    /\ task_state[p] = "none"
    /\ task_state' = [task_state EXCEPT ![p] = "ready"]
    /\ comm' = [comm EXCEPT ![p] = name]
    /\ UNCHANGED <<dsq_vtime, task_cpu, task_ctx_stor, global_vtime, dsq, started_vtime>>
    /\ UNCHANGED others

\* returns -1: the host chooses the CPU
pmu_cxl_select_cpu(p) ==
    /\ task_state[p] = "ready"
    /\ task_state' = [task_state EXCEPT ![p] = "selected"]
    /\ UNCHANGED <<comm, dsq_vtime, task_cpu, task_ctx_stor, global_vtime, dsq,
                   started_vtime>>
    /\ UNCHANGED others

\* the body is a comment: the call returns with the task in no queue
pmu_cxl_enqueue(p) ==
    /\ task_state[p] = "selected"
    /\ task_state' = [task_state EXCEPT ![p] = "queued"]
    /\ UNCHANGED <<comm, dsq_vtime, task_cpu, task_ctx_stor, global_vtime, dsq,
                   started_vtime>>
    /\ UNCHANGED others

pmu_cxl_dispatch(cpu) ==
    /\ \A p \in Tasks : task_cpu[p] # cpu
    /\ scx_bpf_dsq_move_to_local(cpu)

pmu_cxl_exit_task(p) ==
    /\ task_state[p] = "ready"
    /\ task_state' = [task_state EXCEPT ![p] = "none"]
    /\ comm' = [comm EXCEPT ![p] = "bash"]
    /\ UNCHANGED <<dsq_vtime, task_cpu, task_ctx_stor, global_vtime, dsq, started_vtime>>
    /\ UNCHANGED others

PmuInitTask == \E p \in Tasks, name \in Comms : pmu_cxl_init_task(p, name)
PmuSelectCpu == \E p \in Tasks : pmu_cxl_select_cpu(p)
PmuEnqueue == \E p \in Tasks : pmu_cxl_enqueue(p)
PmuDispatch == \E cpu \in Cpus : pmu_cxl_dispatch(cpu)
PmuExitTask == \E p \in Tasks : pmu_cxl_exit_task(p)

NextPmu == PmuInitTask \/ PmuSelectCpu \/ PmuEnqueue \/ PmuDispatch \/ PmuExitTask

SpecPmu == Init /\ [][NextPmu]_vars

\* ------------------------------------------------------------- classify_io_pattern
\* static inline enum io_pattern classify_io_pattern(struct memory_access_pattern *)
\* read_ratio is the integer quotient (read_bytes * 100) / total_bytes.  (The u64
\* product does not wrap for counters below 2^57, the only ones considered.)
classify_io_pattern(pattern) ==
    IF ~pattern.present \/ (pattern.read_bytes = 0 /\ pattern.write_bytes = 0)
    THEN "IO_PATTERN_UNKNOWN"
    ELSE LET total_bytes == pattern.read_bytes + pattern.write_bytes
             read_ratio == (pattern.read_bytes * 100) \div total_bytes
         IN  IF read_ratio > 80 THEN "IO_PATTERN_READ_HEAVY"
             ELSE IF read_ratio < 20 THEN "IO_PATTERN_WRITE_HEAVY"
             ELSE "IO_PATTERN_MIXED"

\* a map entry with the given counters, the other fields as update_damon_data
\* first stores them (locality_score 50) and the io_pattern that line 258 stores
\* for the counters
PatternOf(read_bytes, write_bytes) ==
    LET pat == [NoPattern EXCEPT !.present = TRUE, !.locality_score = 50,
                                 !.read_bytes = read_bytes,
                                 !.write_bytes = write_bytes]
    IN  [pat EXCEPT !.io_pattern = classify_io_pattern(pat)]

\* The function is called on the entry of a pid with any pair of counters.
InitClassify ==
    /\ SchedInit /\ EnqInit /\ SelectInit /\ StopInit /\ ProgInit
    /\ damon_data \in {PatternOf(r, w) : r \in 0..MaxBytes, w \in 0..MaxBytes}
    /\ se = [sum_exec_runtime |-> 0, vruntime |-> 0, mm |-> TRUE]
    /\ now = 0
    /\ classify_ret = NO_RET
    /\ cpu_contexts = ZeroCpuCtx
    /\ prio_call = NoPrioCall

\* a call classify_io_pattern(pattern) on the entry
ClassifyIoPattern ==
    /\ classify_ret' = classify_io_pattern(damon_data)
    /\ UNCHANGED <<sched_vars, but_helper, damon_data, se, now, cpu_contexts,
                   prio_call>>

NextClassify == ClassifyIoPattern

SpecClassify == InitClassify /\ [][NextClassify]_vars

\* ------------------------------------------------------------- update_damon_data
\* nanoseconds a task may run between two looks at it (0: it did not run)
ExecDeltas == {0, 800, 2500, 5000}
\* nanoseconds between two steps of the host's clock
Quantum == 5000

\* lines 262-268: the locality score after the execution-time heuristic
LocalityByExec(locality_score, exec_delta, nr_accesses) ==
    IF exec_delta > nr_accesses * 500
    THEN (IF locality_score > 10 THEN locality_score - 10 ELSE 0)
    ELSE (IF locality_score < 90 THEN locality_score + 5 ELSE 100)

\* lines 271-274 without the cap at 100
LocalityByIo_nocap(locality_score, io) ==
    IF io \in {"IO_PATTERN_READ_HEAVY", "IO_PATTERN_WRITE_HEAVY"}
    THEN locality_score + 5
    ELSE locality_score

\* line 258 left out: the io_pattern stays what it was
IoAfterCount_stale(counted) == counted.io_pattern

\* line 258: the io_pattern stored after the counters have been updated
IoAfterCount(counted) == classify_io_pattern(counted)

\* lines 271-274: the boost for well-behaved I/O patterns
LocalityByIo(locality_score, io) ==
    IF io \in {"IO_PATTERN_READ_HEAVY", "IO_PATTERN_WRITE_HEAVY"}
    THEN (IF locality_score < 95 THEN locality_score + 5 ELSE 100)
    ELSE locality_score

\* lines 242-254: exec_delta, 0 unless the task has an mm and has run since
\* total_access_time
ExecDelta(pattern, task) ==
    IF task.mm /\ task.sum_exec_runtime > pattern.total_access_time
    THEN task.sum_exec_runtime - pattern.total_access_time
    ELSE 0

\* line 247 with the threshold of line 262
ReadDominated_500(exec_delta, nr_accesses) == exec_delta > nr_accesses * 500

\* line 247: the execution delta is counted as bytes read
ReadDominated(exec_delta, nr_accesses) == exec_delta > nr_accesses * 1000

\* update_damon_data(pid, p) at time current_time: the entry of the pid afterwards,
\* given the entry that bpf_map_lookup_elem finds (NoPattern: none)
update_damon_data(pattern, task, current_time) ==
    IF ~pattern.present
    THEN [NoPattern EXCEPT !.present = TRUE, !.last_access_time = current_time,
                           !.locality_score = 50]
    ELSE IF ~(current_time - pattern.last_access_time > 0) THEN pattern
    ELSE LET nr_accesses == pattern.nr_accesses + 1
             ran == task.mm /\ task.sum_exec_runtime > pattern.total_access_time
             exec_delta == ExecDelta(pattern, task)
             reads == ran /\ ReadDominated(exec_delta, nr_accesses)
             counted ==
                 [pattern EXCEPT
                     !.nr_accesses = nr_accesses,
                     !.last_access_time = current_time,
                     !.working_set_size =
                         IF task.mm THEN (task.vruntime \div 1000000) % 65536 ELSE @,
                     !.read_bytes = IF reads THEN @ + exec_delta \div 1000 ELSE @,
                     !.write_bytes =
                         IF ran /\ ~reads THEN @ + exec_delta \div 2000 ELSE @,
                     !.total_access_time = IF ran THEN task.sum_exec_runtime ELSE @]
             io == IoAfterCount(counted)
         IN  [counted EXCEPT
                 !.io_pattern = io,
                 !.locality_score =
                     LocalityByIo(LocalityByExec(@, exec_delta, nr_accesses), io)]

\* a call update_damon_data(pid, p); the first one stores nothing when the map is
\* full (bpf_map_update_elem fails)
UpdateDamonData(stored) ==
    /\ damon_data' = IF damon_data.present \/ stored
                      THEN update_damon_data(damon_data, se, now)
                      ELSE damon_data
    /\ UNCHANGED <<sched_vars, but_helper, se, now, classify_ret, cpu_contexts,
                   prio_call>>

\* the host: a quantum of time passes, and the task runs for exec of it or not at
\* all
host_run(exec) ==
    /\ now < MaxQuanta * Quantum
    /\ now' = now + Quantum
    /\ se' = [se EXCEPT !.sum_exec_runtime = @ + exec, !.vruntime = @ + exec]
    /\ UNCHANGED <<sched_vars, but_helper, damon_data, classify_ret, cpu_contexts,
                   prio_call>>

\* A task, with or without an mm (a kernel thread has none), that has not been
\* looked at yet.
InitDamon ==
    /\ SchedInit /\ EnqInit /\ SelectInit /\ StopInit /\ ProgInit
    /\ damon_data = NoPattern
    /\ se \in [sum_exec_runtime : {0}, vruntime : {0}, mm : BOOLEAN]
    /\ now = 0
    /\ classify_ret = NO_RET
    /\ cpu_contexts = ZeroCpuCtx
    /\ prio_call = NoPrioCall

UpdateDamon == \E stored \in BOOLEAN : UpdateDamonData(stored)
HostRun == \E exec \in ExecDeltas : host_run(exec)

NextDamon == UpdateDamon \/ HostRun \/ ClassifyIoPattern

SpecDamon == InitDamon /\ [][NextDamon]_vars

\* ------------------------------------------------------------- calculate_task_priority
MOE_VECTORDB_THRESHOLD == 80
BANDWIDTH_THRESHOLD == 70

\* lines 403-406 with the floor left out: the boost is subtracted whenever it is set
BoostedPriority_nofloor(base_priority, priority_boost) ==
    IF priority_boost > 0 THEN base_priority - priority_boost ELSE base_priority

\* lines 329-401: base_priority after the switch on tctx->type.  pattern and cpu
\* stand for the pointers pattern and cxl_metrics, NULL when not present.
TablePriority(tctx, pattern, cpu) ==
    LET cxl_metrics == cpu.cxl_metrics
        Adj(cond, delta) == IF cond THEN delta ELSE 0
    IN  120 +
        CASE tctx.type = "TASK_TYPE_MOE_VECTORDB" ->
                 Adj(pattern.present /\ pattern.locality_score > MOE_VECTORDB_THRESHOLD,
                     0 - 20)
                 + Adj(cpu.present /\ cxl_metrics.memory_bandwidth > 1000, 0 - 10)
          [] tctx.type = "TASK_TYPE_READ_INTENSIVE" ->
                 Adj(cpu.present /\ cxl_metrics.read_bandwidth > BANDWIDTH_THRESHOLD,
                     0 - 15)
                 + Adj(pattern.present /\ pattern.io_pattern = "IO_PATTERN_READ_HEAVY",
                       0 - 10)
          [] tctx.type = "TASK_TYPE_WRITE_INTENSIVE" ->
                 Adj(cpu.present /\ cxl_metrics.write_bandwidth > BANDWIDTH_THRESHOLD,
                     0 - 15)
                 + Adj(pattern.present /\ pattern.io_pattern = "IO_PATTERN_WRITE_HEAVY",
                       0 - 10)
          [] tctx.type = "TASK_TYPE_BANDWIDTH_TEST" ->
                 Adj(tctx.is_bandwidth_critical, 0 - 30)
                 + Adj(pattern.present /\
                       \/ (pattern.io_pattern = "IO_PATTERN_READ_HEAVY" /\ cpu.present
                            /\ cxl_metrics.read_bandwidth > 100)
                       \/ (pattern.io_pattern = "IO_PATTERN_WRITE_HEAVY" /\ cpu.present
                            /\ cxl_metrics.write_bandwidth > 100),
                       0 - 10)
          [] tctx.type = "TASK_TYPE_KWORKER" ->
                 Adj(tctx.needs_promotion, 0 - 15)
                 + Adj(cpu.present /\ cxl_metrics.cxl_utilization > 90, 10)
          [] tctx.type = "TASK_TYPE_LATENCY_SENSITIVE" -> 0 - 25
          [] OTHER -> Adj(pattern.present /\ pattern.locality_score < 30, 10)

\* lines 403-406: the temporary boost, floored at 1
BoostedPriority(base_priority, priority_boost) ==
    IF priority_boost > 0
    THEN (IF base_priority > priority_boost THEN base_priority - priority_boost ELSE 1)
    ELSE base_priority

\* lines 407-408 with a boost of 5 or less left as it is
DecayedBoost_stuck(priority_boost) ==
    IF priority_boost > 5 THEN priority_boost - 5 ELSE priority_boost

\* lines 407-408: the boost decays by 5 per call
DecayedBoost(priority_boost) ==
    IF priority_boost > 0
    THEN (IF priority_boost > 5 THEN priority_boost - 5 ELSE 0)
    ELSE priority_boost

\* calculate_task_priority with a promotion that is used up by the call
calculate_task_priority_consume(tctx, pattern, cpu) ==
    [ret |-> BoostedPriority(TablePriority(tctx, pattern, cpu), tctx.priority_boost),
     tctx |-> [tctx EXCEPT !.priority_boost = DecayedBoost(@),
                           !.needs_promotion = FALSE]]

\* calculate_task_priority(tctx, pattern, cxl_metrics): the value returned and
\* *tctx afterwards
calculate_task_priority(tctx, pattern, cpu) ==
    [ret |-> BoostedPriority(TablePriority(tctx, pattern, cpu), tctx.priority_boost),
     tctx |-> [tctx EXCEPT !.priority_boost = DecayedBoost(@)]]

\* a call with the task's context, the entry of its pid in damon_data and the
\* telemetry of a CPU
CalculateTaskPriority ==
    /\ prio_call.calls < MaxCalls
    /\ LET r == calculate_task_priority(prio_call.tctx, damon_data, cpu_contexts)
       IN  prio_call' = [prio_call EXCEPT !.tctx = r.tctx, !.ret = r.ret,
                                          !.calls = @ + 1]
    /\ UNCHANGED <<sched_vars, but_helper, damon_data, se, now, classify_ret,
                   cpu_contexts>>

\* priority_boost values a task may have when a series of calls begins
Boosts == {0, 7, 85, 125, 135}

\* The patterns handed to the function: none, or an entry whose locality score is
\* on either side of the two thresholds and whose io_pattern is any of those that
\* classify_io_pattern returns.
PrioPatterns ==
    {NoPattern,
     [PatternOf(0, 0) EXCEPT !.nr_accesses = 1, !.locality_score = 25],
     [PatternOf(5, 0) EXCEPT !.nr_accesses = 1, !.locality_score = 30],
     [PatternOf(0, 5) EXCEPT !.nr_accesses = 1, !.locality_score = 80],
     [PatternOf(5, 5) EXCEPT !.nr_accesses = 1, !.locality_score = 85]}

\* The telemetry handed to the function: none, or values on either side of each
\* threshold, with either bandwidth leg the larger.
PrioMetrics ==
    {[ZeroMetrics EXCEPT !.memory_bandwidth = level[1], !.cxl_utilization = level[2],
                         !.read_bandwidth = rd, !.write_bandwidth = wr] :
        level \in {<<1000, 90>>, <<1001, 91>>},
        rd \in {70, 80, 150}, wr \in {70, 90, 140}}

PrioCpuCtxs ==
    {[ZeroCpuCtx EXCEPT !.present = FALSE]}
    \cup {[ZeroCpuCtx EXCEPT !.cxl_metrics = m] : m \in PrioMetrics}

InitPrio ==
    /\ SchedInit /\ EnqInit /\ SelectInit /\ StopInit /\ ProgInit
    /\ damon_data \in PrioPatterns
    /\ se = [sum_exec_runtime |-> 0, vruntime |-> 0, mm |-> TRUE]
    /\ now = 0
    /\ classify_ret = NO_RET
    /\ cpu_contexts \in PrioCpuCtxs
    /\ prio_call \in
           {[NoPrioCall EXCEPT !.tctx = tctx, !.boost0 = tctx.priority_boost] :
               tctx \in [type : TaskTypes, priority_boost : Boosts,
                         needs_promotion : BOOLEAN, is_bandwidth_critical : BOOLEAN]}

NextPrio == CalculateTaskPriority

SpecPrio == InitPrio /\ [][NextPrio]_vars

\* ------------------------------------------------------------- update_cxl_pmu_metrics
\* lines 304-315 with the last branch left out: equal counts leave the flags as
\* they were
OptimizedFlags_keep(ctx) ==
    IF ctx.active_read_tasks > ctx.active_write_tasks THEN <<TRUE, FALSE>>
    ELSE IF ctx.active_write_tasks > ctx.active_read_tasks THEN <<FALSE, TRUE>>
    ELSE <<ctx.is_read_optimized, ctx.is_write_optimized>>

\* lines 304-315: is_read_optimized and is_write_optimized after the refresh
OptimizedFlags(ctx) ==
    IF ctx.active_read_tasks > ctx.active_write_tasks THEN <<TRUE, FALSE>>
    ELSE IF ctx.active_write_tasks > ctx.active_read_tasks THEN <<FALSE, TRUE>>
    ELSE <<FALSE, FALSE>>

\* lines 304-310 with >= in the first test: equal counts boost the read side
BandwidthBonus_ge(ctx) ==
    IF ctx.active_read_tasks >= ctx.active_write_tasks THEN <<100, 0>>
    ELSE IF ctx.active_write_tasks > ctx.active_read_tasks THEN <<0, 100>>
    ELSE <<0, 0>>

\* lines 304-310: what is added to read_bandwidth and to write_bandwidth
BandwidthBonus(ctx) ==
    IF ctx.active_read_tasks > ctx.active_write_tasks THEN <<100, 0>>
    ELSE IF ctx.active_write_tasks > ctx.active_read_tasks THEN <<0, 100>>
    ELSE <<0, 0>>

\* line 295 with a modulus of 150
MemoryLatency_wide(time_factor) == 100 + (time_factor % 150)

\* line 295: the simulated memory latency
MemoryLatency(time_factor) == 100 + (time_factor % 100)

\* update_cxl_pmu_metrics(cpu_id) at time current_time: the entry of the CPU
\* afterwards, given the entry that bpf_map_lookup_elem finds
update_cxl_pmu_metrics(ctx, current_time) ==
    IF ~ctx.present THEN ctx
    ELSE LET time_factor == current_time \div 1000000
             memory_bandwidth == 800 + (time_factor % 400)
             memory_latency == MemoryLatency(time_factor)
             bonus == BandwidthBonus(ctx)
             flags == OptimizedFlags(ctx)
         IN  [ctx EXCEPT
                 !.cxl_metrics =
                     [memory_bandwidth |-> memory_bandwidth,
                      cache_hit_rate |-> 85 + (time_factor % 15),
                      memory_latency |-> memory_latency,
                      cxl_utilization |-> 60 + (time_factor % 40),
                      read_bandwidth |-> (memory_bandwidth * 60) \div 100 + bonus[1],
                      write_bandwidth |-> (memory_bandwidth * 40) \div 100 + bonus[2],
                      last_update_time |-> current_time],
                 !.is_read_optimized = flags[1],
                 !.is_write_optimized = flags[2],
                 !.is_cxl_attached = (memory_latency > 150)]

\* a call update_cxl_pmu_metrics(cpu_id)
UpdateCxlPmuMetrics ==
    /\ cpu_contexts' = update_cxl_pmu_metrics(cpu_contexts, now)
    /\ UNCHANGED <<sched_vars, but_helper, damon_data, se, now, classify_ret,
                   prio_call>>

\* numbers of active read and write tasks of a CPU
ActiveCounts == {0, 1, 5}

\* The entry of a CPU at any time of the clock: no entry (a CPU id outside the
\* array), or an entry with any counts of active tasks and with the flags that an
\* earlier refresh, under other counts, may have left.
InitMetrics ==
    /\ SchedInit /\ EnqInit /\ SelectInit /\ StopInit /\ ProgInit
    /\ damon_data = NoPattern
    /\ se = [sum_exec_runtime |-> 0, vruntime |-> 0, mm |-> TRUE]
    /\ now \in {ms * 1000000 : ms \in 0..MaxTimeMs}
    /\ classify_ret = NO_RET
    /\ cpu_contexts \in
           {[ZeroCpuCtx EXCEPT !.present = FALSE]}
           \cup {[ZeroCpuCtx EXCEPT !.active_read_tasks = r, !.active_write_tasks = w,
                                    !.is_read_optimized = flags[1],
                                    !.is_write_optimized = flags[2]] :
                    r \in ActiveCounts, w \in ActiveCounts,
                    flags \in {<<FALSE, FALSE>>, <<TRUE, FALSE>>, <<FALSE, TRUE>>}}
    /\ prio_call = NoPrioCall

NextMetrics == UpdateCxlPmuMetrics

SpecMetrics == InitMetrics /\ [][NextMetrics]_vars

\* ------------------------------------------------------------- cxl_monitoring
\* The handlers of the two tracepoints run on every CPU, one at a time on each
\* (a tracepoint program does not nest on a CPU), and interleave across CPUs at
\* their accesses to the maps.  The comm field of struct task_stats is left out.

\* line 42 with every CPU counted on entry 0
CpuUsageKey_zero(cpu) == 0

\* line 42: u32 cpu = bpf_get_smp_processor_id(), the key into cpu_usage
CpuUsageKey(cpu) == cpu

\* the events handled so far on all CPUs
RECURSIVE SumOver(_, _)
SumOver(f, S) == IF S = {} THEN 0
                 ELSE LET x == CHOOSE y \in S : TRUE IN f[x] + SumOver(f, S \ {x})

\* the handler on the CPU goes on at line pc, or returns ("none")
HandlerAt(cpu, pc, val) ==
    tp_handler' = [tp_handler EXCEPT ![cpu] =
                      IF pc = "none" THEN NoHandler
                      ELSE [tp_handler[cpu] EXCEPT !.pc = pc, !.val = val]]

\* trace_sched_switch lines 38-51: the event arrives and the CPU's counter is
\* incremented, by one atomic __sync_fetch_and_add on the entry that the lookup
\* found; a CPU id of 64 or more has no entry, and bpf_map_update_elem on an
\* array map cannot create one
trace_sched_switch(cpu, prev_pid, next_pid) ==
    /\ tp_handler[cpu].pc = "none"
    /\ SumOver(nr_switches, MonCpus) < MaxEvents
    /\ prev_pid # next_pid
    /\ LET key == CpuUsageKey(cpu)
       IN  cpu_usage' = IF key < CPU_USAGE_ENTRIES
                        THEN [cpu_usage EXCEPT ![key] = @ + 1]
                        ELSE cpu_usage
    /\ nr_switches' = [nr_switches EXCEPT ![cpu] = @ + 1]
    /\ tp_handler' = [tp_handler EXCEPT ![cpu] =
                         [NoHandler EXCEPT !.pc = "54", !.prev_pid = prev_pid,
                                           !.next_pid = next_pid]]
    /\ UNCHANGED <<task_monitor, sched_vars, but_prog, but_mon>>

\* lines 54-56: the lookup of the task that is switched out
trace_sched_switch_54(cpu) ==
    /\ tp_handler[cpu].pc = "54"
    /\ LET prev_pid == tp_handler[cpu].prev_pid
       IN  IF prev_pid = 0 THEN HandlerAt(cpu, "70", 0)
           ELSE IF task_monitor[prev_pid].present
           THEN HandlerAt(cpu, "57", task_monitor[prev_pid].total_switches)
           ELSE HandlerAt(cpu, "65", 0)
    /\ UNCHANGED <<cpu_usage, task_monitor, nr_switches, sched_vars, but_prog, but_mon>>

\* lines 57-58: stats->total_switches++ writes back the value read, plus one
trace_sched_switch_57(cpu) ==
    /\ tp_handler[cpu].pc = "57"
    /\ task_monitor' = [task_monitor EXCEPT ![tp_handler[cpu].prev_pid] =
                            [@ EXCEPT !.total_switches = tp_handler[cpu].val + 1,
                                      !.last_cpu = cpu]]
    /\ HandlerAt(cpu, "70", 0)
    /\ UNCHANGED <<cpu_usage, nr_switches, sched_vars, but_prog, but_mon>>

\* lines 60-65: a new entry for the task that is switched out
trace_sched_switch_65(cpu) ==
    /\ tp_handler[cpu].pc = "65"
    /\ task_monitor' = [task_monitor EXCEPT ![tp_handler[cpu].prev_pid] =
                            [NoStats EXCEPT !.present = TRUE, !.total_switches = 1,
                                            !.last_cpu = cpu]]
    /\ HandlerAt(cpu, "70", 0)
    /\ UNCHANGED <<cpu_usage, nr_switches, sched_vars, but_prog, but_mon>>

\* lines 70-72: the lookup of the task that is switched in
trace_sched_switch_70(cpu) ==
    /\ tp_handler[cpu].pc = "70"
    /\ LET next_pid == tp_handler[cpu].next_pid
       IN  IF next_pid = 0 THEN HandlerAt(cpu, "none", 0)
           ELSE IF task_monitor[next_pid].present
           THEN HandlerAt(cpu, "73", task_monitor[next_pid].total_runtime)
           ELSE HandlerAt(cpu, "81", 0)
    /\ UNCHANGED <<cpu_usage, task_monitor, nr_switches, sched_vars, but_prog, but_mon>>

\* lines 73-74: stats->total_runtime++ writes back the value read, plus one
trace_sched_switch_73(cpu) ==
    /\ tp_handler[cpu].pc = "73"
    /\ task_monitor' = [task_monitor EXCEPT ![tp_handler[cpu].next_pid] =
                            [@ EXCEPT !.total_runtime = tp_handler[cpu].val + 1,
                                      !.last_cpu = cpu]]
    /\ HandlerAt(cpu, "none", 0)
    /\ UNCHANGED <<cpu_usage, nr_switches, sched_vars, but_prog, but_mon>>

\* lines 76-81: a new entry for the task that is switched in
trace_sched_switch_81(cpu) ==
    /\ tp_handler[cpu].pc = "81"
    /\ task_monitor' = [task_monitor EXCEPT ![tp_handler[cpu].next_pid] =
                            [NoStats EXCEPT !.present = TRUE, !.total_runtime = 1,
                                            !.last_cpu = cpu]]
    /\ HandlerAt(cpu, "none", 0)
    /\ UNCHANGED <<cpu_usage, nr_switches, sched_vars, but_prog, but_mon>>

\* trace_sched_wakeup lines 91-97: a task that has an entry wakes another up
trace_sched_wakeup(cpu, pid) ==
    /\ tp_handler[cpu].pc = "none"
    /\ task_monitor[pid].present
    /\ task_monitor[pid].total_runtime < MaxEvents
    /\ tp_handler' = [tp_handler EXCEPT ![cpu] =
                         [NoHandler EXCEPT !.pc = "97", !.pid = pid,
                                           !.val = task_monitor[pid].total_runtime]]
    /\ UNCHANGED <<cpu_usage, task_monitor, nr_switches, sched_vars, but_prog, but_mon>>

\* line 97: stats->total_runtime++ writes back the value read, plus one
trace_sched_wakeup_97(cpu) ==
    /\ tp_handler[cpu].pc = "97"
    /\ task_monitor' = [task_monitor EXCEPT ![tp_handler[cpu].pid] =
                            [@ EXCEPT !.total_runtime = tp_handler[cpu].val + 1]]
    /\ HandlerAt(cpu, "none", 0)
    /\ UNCHANGED <<cpu_usage, nr_switches, sched_vars, but_prog, but_mon>>

SchedSwitch ==
    \E cpu \in MonCpus, prev_pid, next_pid \in MonPids \cup {0} :
        trace_sched_switch(cpu, prev_pid, next_pid)
SchedSwitchStep ==
    \E cpu \in MonCpus :
        \/ trace_sched_switch_54(cpu) \/ trace_sched_switch_57(cpu)
        \/ trace_sched_switch_65(cpu) \/ trace_sched_switch_70(cpu)
        \/ trace_sched_switch_73(cpu) \/ trace_sched_switch_81(cpu)
SchedWakeup ==
    \E cpu \in MonCpus, pid \in MonPids :
        trace_sched_wakeup(cpu, pid) \/ trace_sched_wakeup_97(cpu)

NextMon == SchedSwitch \/ SchedSwitchStep \/ SchedWakeup

SpecMon == Init /\ [][NextMon]_vars

\* ------------------------------------------------------------- cxl_sched
\* main of the loader, a statement or a library call at a time, and the signals
\* the process may get at any moment.

\* main goes on at pc
LoaderGoto(pc) == cxl_sched' = [cxl_sched EXCEPT !.pc = pc]
\* main returns status
LoaderReturn(status) == cxl_sched' = [cxl_sched EXCEPT !.pc = "exit", !.status = status]

\* line 139: return err < 0 ? -err : 0
ExitStatus(err) == IF err < 0 THEN 0 - err ELSE 0

\* lines 69-80: the command line
main_args ==
    /\ cxl_sched.pc = "args"
    /\ LET args == cxl_sched.args
       IN  IF args.argc > 2 THEN LoaderReturn(1)
           ELSE IF args.argc = 2 /\ args.argv1 \in {"-h", "--help"} THEN LoaderReturn(0)
           ELSE LoaderGoto("access")
    /\ UNCHANGED <<sched_vars, but_prog, but_loader>>

\* lines 83-87: access(obj_file, F_OK)
main_access ==
    /\ cxl_sched.pc = "access"
    /\ IF cxl_sched.args.exists THEN LoaderGoto("rlimit") ELSE LoaderReturn(1)
    /\ UNCHANGED <<sched_vars, but_prog, but_loader>>

\* lines 89-94: bump_memlock_rlimit, which exits with 1 when setrlimit fails
main_rlimit(ok) ==
    /\ cxl_sched.pc = "rlimit"
    /\ IF ok THEN LoaderGoto("signal") ELSE LoaderReturn(1)
    /\ UNCHANGED <<sched_vars, but_prog, but_loader>>

\* lines 97-98: the handlers of SIGINT and SIGTERM
main_signal ==
    /\ cxl_sched.pc = "signal"
    /\ cxl_sched' = [cxl_sched EXCEPT !.pc = "open", !.handlers = TRUE]
    /\ UNCHANGED <<sched_vars, but_prog, but_loader>>

\* lines 101-105: bpf_object__open_file
main_open(ok) ==
    /\ cxl_sched.pc = "open"
    /\ IF ok THEN cxl_sched' = [cxl_sched EXCEPT !.pc = "load", !.obj = "open"]
       ELSE LoaderReturn(1)
    /\ UNCHANGED <<sched_vars, but_prog, but_loader>>

\* lines 108-117: bpf_object__load; it loads the programs and creates the maps,
\* and attaches nothing
main_load(err) ==
    /\ cxl_sched.pc = "load"
    /\ cxl_sched' = IF err = 0
                    THEN [cxl_sched EXCEPT !.pc = "report", !.obj = "loaded", !.err = 0]
                    ELSE [cxl_sched EXCEPT !.pc = "cleanup", !.err = err]
    /\ UNCHANGED <<sched_vars, but_prog, but_loader>>

\* lines 119-126: the report that the scheduler is loaded and active
main_report ==
    /\ cxl_sched.pc = "report"
    /\ cxl_sched' = [cxl_sched EXCEPT !.pc = "loop", !.reported = TRUE]
    /\ UNCHANGED <<sched_vars, but_prog, but_loader>>

\* lines 129-133: while (!exiting) sleep(1)
main_loop ==
    /\ cxl_sched.pc = "loop"
    /\ IF cxl_sched.exiting THEN LoaderGoto("cleanup")
       ELSE /\ cxl_sched.sleeps < MaxSleeps
            /\ cxl_sched' = [cxl_sched EXCEPT !.sleeps = @ + 1]
    /\ UNCHANGED <<sched_vars, but_prog, but_loader>>

\* line 136: bpf_link__destroy(link), which does nothing for a NULL link
main_cleanup ==
    /\ cxl_sched.pc = "cleanup"
    /\ cxl_sched' = [cxl_sched EXCEPT
                        !.pc = "close",
                        !.link = IF @ = "attached" THEN "destroyed" ELSE @]
    /\ UNCHANGED <<sched_vars, but_prog, but_loader>>

\* lines 137-139: bpf_object__close(obj) and the return
main_close ==
    /\ cxl_sched.pc = "close"
    /\ cxl_sched' = [cxl_sched EXCEPT !.pc = "exit", !.obj = "closed",
                                      !.status = ExitStatus(cxl_sched.err)]
    /\ UNCHANGED <<sched_vars, but_prog, but_loader>>

\* SIGINT or SIGTERM: sig_handler (lines 20-23) once it is installed, the end of
\* the process before that
loader_signal ==
    /\ cxl_sched.pc \notin {"exit", "killed"}
    /\ ~cxl_sched.exiting
    /\ cxl_sched' = IF cxl_sched.handlers
                    THEN [cxl_sched EXCEPT !.exiting = TRUE]
                    ELSE [cxl_sched EXCEPT !.pc = "killed"]
    /\ UNCHANGED <<sched_vars, but_prog, but_loader>>

MainStart == main_args \/ main_access \/ (\E ok \in BOOLEAN : main_rlimit(ok)) \/ main_signal
MainLoad ==
    \/ \E ok \in BOOLEAN : main_open(ok)
    \/ \E err \in LoadErrors \cup {0} : main_load(err)
MainRun == main_report \/ main_loop
MainCleanup == main_cleanup \/ main_close
LoaderSignal == loader_signal

NextLoader == MainStart \/ MainLoad \/ MainRun \/ MainCleanup \/ LoaderSignal

\* the loader started with any command line, with the object file there or not
InitLoader ==
    /\ SchedInit /\ EnqInit /\ SelectInit /\ StopInit /\ HelperInit /\ MonInit
    /\ BwInit /\ BenchInit
    /\ cxl_sched \in {LoaderStart(args) : args \in LoaderArgs}

SpecLoader == InitLoader /\ [][NextLoader]_vars

\* ------------------------------------------------------------- cxl_bandwidth_scheduler
\* main, load_scheduler and unload_scheduler of the loader, a statement or a
\* library call at a time, the signals the process may get at any moment and the
\* process that spawn_bandwidth_test forks.

\* the process goes on at pc
BwGoto(pc) == bw_sched' = [bw_sched EXCEPT !.pc = pc]
\* load_scheduler returns ret to line 270 of main
LoadReturn(s, ret) == [s EXCEPT !.pc = "check", !.load_done = TRUE, !.load_ret = ret]

\* lines 263-264: signal(SIGINT, ...), signal(SIGTERM, ...), and the call of
\* load_scheduler at line 270
bw_main_263 ==
    /\ bw_sched.pc = "signal"
    /\ bw_sched' = [bw_sched EXCEPT !.pc = "rlimit", !.handlers = TRUE]
    /\ UNCHANGED <<sched_vars, but_prog, but_bw>>

\* lines 59-62: setrlimit; ok is whether it succeeds
load_scheduler_59(ok) ==
    /\ bw_sched.pc = "rlimit"
    /\ bw_sched' = IF ok THEN [bw_sched EXCEPT !.pc = "open"]
                   ELSE LoadReturn(bw_sched, 0 - 1)
    /\ UNCHANGED <<sched_vars, but_prog, but_bw>>

\* lines 65-69: obj = bpf_object__open(bpf_obj_file); ok is whether it succeeds
load_scheduler_65(ok) ==
    /\ bw_sched.pc = "open"
    /\ bw_sched' = IF ok
                   THEN [bw_sched EXCEPT !.pc = "load", !.obj = "open", !.objects = @ + 1]
                   ELSE LoadReturn([bw_sched EXCEPT !.obj = "NULL"], 0 - 1)
    /\ UNCHANGED <<sched_vars, but_prog, but_bw>>

\* lines 72-76: err = bpf_object__load(obj)
load_scheduler_72(err) ==
    /\ bw_sched.pc = "load"
    /\ bw_sched' = IF err # 0
                   THEN [bw_sched EXCEPT !.pc = "cleanup", !.err = err]
                   ELSE [bw_sched EXCEPT !.pc = "find", !.err = 0, !.obj = "loaded"]
    /\ UNCHANGED <<sched_vars, but_prog, but_bw>>

\* lines 79-87: the map "cxl_ops", or else the map "minimal_ops"; map is the
\* struct_ops map the object holds
load_scheduler_79(map) ==
    /\ bw_sched.pc = "find"
    /\ bw_sched' = IF map = "none"
                   THEN [bw_sched EXCEPT !.pc = "cleanup", !.err = 0 - 1]
                   ELSE [bw_sched EXCEPT !.pc = "attach"]
    /\ UNCHANGED <<sched_vars, but_prog, but_bw>>

\* lines 89-94: sched_link = bpf_map__attach_struct_ops(map); ok is whether it
\* succeeds
load_scheduler_89(ok) ==
    /\ bw_sched.pc = "attach"
    /\ bw_sched' = IF ok
                   THEN [bw_sched EXCEPT !.pc = "loaded", !.sched_link = "attached",
                                         !.links = @ + 1]
                   ELSE [bw_sched EXCEPT !.pc = "cleanup", !.sched_link = "NULL",
                                         !.err = 0 - 1]
    /\ UNCHANGED <<sched_vars, but_prog, but_bw>>

\* lines 96-97: return 0
load_scheduler_96 ==
    /\ bw_sched.pc = "loaded"
    /\ bw_sched' = LoadReturn(bw_sched, 0)
    /\ UNCHANGED <<sched_vars, but_prog, but_bw>>

\* lines 99-104, a variant that returns err with the object left as it is
load_scheduler_99_keep ==
    /\ bw_sched.pc = "cleanup"
    /\ bw_sched' = LoadReturn(bw_sched, bw_sched.err)
    /\ UNCHANGED <<sched_vars, but_prog, but_bw>>

\* lines 99-104: cleanup: if (obj) { bpf_object__close(obj); obj = NULL; }
\* return err
load_scheduler_99 ==
    /\ bw_sched.pc = "cleanup"
    /\ bw_sched' = LoadReturn(IF bw_sched.obj # "NULL"
                              THEN [bw_sched EXCEPT !.obj = "NULL", !.objects = @ - 1]
                              ELSE bw_sched,
                              bw_sched.err)
    /\ UNCHANGED <<sched_vars, but_prog, but_bw>>

\* lines 270-273: if (load_scheduler() != 0) return 1
bw_main_270 ==
    /\ bw_sched.pc = "check"
    /\ bw_sched' = IF bw_sched.load_ret # 0
                   THEN [bw_sched EXCEPT !.pc = "exit", !.status = 1]
                   ELSE [bw_sched EXCEPT !.pc = "configure"]
    /\ UNCHANGED <<sched_vars, but_prog, but_bw>>

\* lines 276-280 and configure_bandwidth_limits (121-134), which fails when obj
\* is NULL and prints the limits otherwise
bw_main_276 ==
    /\ bw_sched.pc = "configure"
    /\ bw_sched' = IF bw_sched.obj = "NULL"
                   THEN [bw_sched EXCEPT !.pc = "unload", !.ret_to = "279"]
                   ELSE [bw_sched EXCEPT !.pc = "spawn"]
    /\ UNCHANGED <<sched_vars, but_prog, but_bw>>

\* lines 283-290 and spawn_bandwidth_test (136-163) in the parent; forked is
\* whether fork succeeds
bw_main_283(forked) ==
    /\ bw_sched.pc = "spawn"
    /\ bw_sched' = IF ~bw_sched.spawn_test THEN [bw_sched EXCEPT !.pc = "monitor"]
                   ELSE IF forked
                   THEN [bw_sched EXCEPT !.pc = "monitor", !.child = "running"]
                   ELSE [bw_sched EXCEPT !.pc = "unload", !.ret_to = "288"]
    /\ UNCHANGED <<sched_vars, but_prog, but_bw>>

\* lines 144-155: the forked process runs the test and exits; what it holds is
\* a copy, the parent's object and link are as they were
spawn_bandwidth_test_child ==
    /\ bw_sched.child = "running"
    /\ bw_sched' = [bw_sched EXCEPT !.child = "exited"]
    /\ UNCHANGED <<sched_vars, but_prog, but_bw>>

\* lines 293-297 and monitor_performance (186-194): while (running) sleep and
\* print; then unload_scheduler is called
monitor_performance ==
    /\ bw_sched.pc = "monitor"
    /\ IF bw_sched.running = 0
       THEN bw_sched' = [bw_sched EXCEPT !.pc = "unload", !.ret_to = "298"]
       ELSE /\ bw_sched.sleeps < MaxSleeps
            /\ bw_sched' = [bw_sched EXCEPT !.sleeps = @ + 1]
    /\ UNCHANGED <<sched_vars, but_prog, but_bw>>

\* lines 108-111: if (sched_link) { bpf_link__destroy(sched_link); sched_link = NULL; }
unload_scheduler_108 ==
    /\ bw_sched.pc = "unload"
    /\ bw_sched' = IF bw_sched.sched_link # "NULL"
                   THEN [bw_sched EXCEPT !.pc = "unload_obj", !.sched_link = "NULL",
                                         !.links = @ - 1]
                   ELSE [bw_sched EXCEPT !.pc = "unload_obj"]
    /\ UNCHANGED <<sched_vars, but_prog, but_bw>>

\* lines 113-118: if (obj) { bpf_object__close(obj); obj = NULL; } and the
\* line "Scheduler unloaded"
unload_scheduler_113 ==
    /\ bw_sched.pc = "unload_obj"
    /\ bw_sched' = IF bw_sched.obj # "NULL"
                   THEN [bw_sched EXCEPT !.pc = "return", !.obj = "NULL",
                                         !.objects = @ - 1, !.unloaded = TRUE]
                   ELSE [bw_sched EXCEPT !.pc = "return", !.unloaded = TRUE]
    /\ UNCHANGED <<sched_vars, but_prog, but_bw>>

\* lines 279, 288 and 300: return 1 after a failure, return 0 after the monitoring
bw_main_return ==
    /\ bw_sched.pc = "return"
    /\ bw_sched' = [bw_sched EXCEPT !.pc = "exit",
                                    !.status = IF bw_sched.ret_to = "298" THEN 0 ELSE 1]
    /\ UNCHANGED <<sched_vars, but_prog, but_bw>>

\* lines 45-48: SIGINT or SIGTERM.  With the handler installed running = 0;
\* before that the process is killed
signal_handler ==
    /\ bw_sched.pc \notin {"exit", "killed"}
    /\ bw_sched.running = 1
    /\ bw_sched' = IF bw_sched.handlers
                   THEN [bw_sched EXCEPT !.running = 0]
                   ELSE [bw_sched EXCEPT !.pc = "killed"]
    /\ UNCHANGED <<sched_vars, but_prog, but_bw>>

LoadScheduler ==
    \/ \E ok \in BOOLEAN : load_scheduler_59(ok)
    \/ \E ok \in BOOLEAN : load_scheduler_65(ok)
    \/ \E err \in LoadErrors \cup {0} : load_scheduler_72(err)
    \/ \E map \in BwMaps : load_scheduler_79(map)
    \/ \E ok \in BOOLEAN : load_scheduler_89(ok)
    \/ load_scheduler_96
    \/ load_scheduler_99
UnloadScheduler == unload_scheduler_108 \/ unload_scheduler_113
BwMain ==
    \/ bw_main_263
    \/ bw_main_270
    \/ bw_main_276
    \/ \E forked \in BOOLEAN : bw_main_283(forked)
    \/ monitor_performance
    \/ bw_main_return
BwSignal == signal_handler
BwChild == spawn_bandwidth_test_child

NextBw == BwMain \/ LoadScheduler \/ UnloadScheduler \/ BwSignal \/ BwChild

\* the loader started with or without -T
InitBw ==
    /\ SchedInit /\ EnqInit /\ SelectInit /\ StopInit /\ HelperInit /\ MonInit
    /\ LoaderInit /\ BenchInit
    /\ bw_sched \in {BwStart(spawn_test) : spawn_test \in BOOLEAN}

SpecBw == InitBw /\ [][NextBw]_vars

\* ------------------------------------------------------------- cxl_memory_test
\* main of the benchmark from the parsed configuration to its exit, and the
\* worker threads it creates, a statement at a time where threads share data.

\* line 372: static_cast<int>(config.num_threads * config.read_ratio), the
\* ratio in hundredths; the cast truncates towards zero
NumReaders(num_threads, read_ratio) ==
    IF num_threads >= 0 THEN (num_threads * read_ratio) \div 100
    ELSE 0 - (((0 - num_threads) * read_ratio) \div 100)

\* main goes on at pc
BenchGoto(pc) == bench_main' = [bench_main EXCEPT !.pc = pc]

\* a std::thread that has just been constructed to run fn on the slot
NewThread(fn, slot) ==
    [fn |-> fn, slot |-> slot, thread_id |-> slot, pc |-> "238", joined |-> FALSE]

\* an exception leaves the try block of main (lines 433-670): the vector threads
\* is destroyed, and the destructor of a std::thread that is joinable calls
\* std::terminate; with no thread made the handler at line 668 is run
BenchThrow ==
    BenchGoto(IF Len(threads) > 0 THEN "terminated" ELSE "caught")

\* lines 366-373: num_readers and num_writers
bench_main_372 ==
    /\ bench_main.pc = "start"
    /\ LET nr == NumReaders(bench_main.num_threads, bench_main.read_ratio)
       IN bench_main' = [bench_main EXCEPT !.pc = "alloc", !.num_readers = nr,
                                           !.num_writers = bench_main.num_threads - nr]
    /\ UNCHANGED <<stop_flag, threads, thread_stats, stat_writers,
                   sched_vars, but_prog, but_bench>>

\* lines 433-558: the buffer; ok is whether the allocation or the mapping succeeds
bench_main_433(ok) ==
    /\ bench_main.pc = "alloc"
    /\ bench_main' = IF ok THEN [bench_main EXCEPT !.pc = "stats"]
                     ELSE [bench_main EXCEPT !.pc = "exit", !.status = 1]
    /\ UNCHANGED <<stop_flag, threads, thread_stats, stat_writers,
                   sched_vars, but_prog, but_bench>>

\* lines 563-565: threads, thread_stats(config.num_threads), stop_flag(false).
\* A negative num_threads is a huge size_t, and the constructor throws
bench_main_563 ==
    /\ bench_main.pc = "stats"
    /\ IF bench_main.num_threads < 0
       THEN BenchThrow /\ UNCHANGED <<stop_flag, thread_stats>>
       ELSE /\ bench_main' = [bench_main EXCEPT !.pc = "readers", !.i = 0]
            /\ thread_stats' = [s \in 0..(bench_main.num_threads - 1) |-> NewThreadStats]
            /\ stop_flag' = FALSE
    /\ UNCHANGED <<threads, stat_writers, sched_vars, but_prog, but_bench>>

\* lines 568-579: a reader thread on thread_stats[i]; ok is whether the thread
\* can be created
bench_main_568(ok) ==
    /\ bench_main.pc = "readers"
    /\ IF bench_main.i < bench_main.num_readers
       THEN IF ok
            THEN /\ threads' = Append(threads, NewThread("reader", bench_main.i))
                 /\ bench_main' = [bench_main EXCEPT !.i = @ + 1]
            ELSE BenchThrow /\ UNCHANGED threads
       ELSE /\ bench_main' = [bench_main EXCEPT !.pc = "writers", !.i = 0]
            /\ UNCHANGED threads
    /\ UNCHANGED <<stop_flag, thread_stats, stat_writers,
                   sched_vars, but_prog, but_bench>>

\* the writer's slot as if it were counted from 0 as well
WriterSlot_zero(num_readers, i) == i

\* lines 587 and 591-592: the slot and the thread id of writer i
WriterSlot(num_readers, i) == num_readers + i

\* lines 582-594: a writer thread on thread_stats[num_readers + i]
bench_main_582(ok) ==
    /\ bench_main.pc = "writers"
    /\ IF bench_main.i < bench_main.num_writers
       THEN IF ok
            THEN /\ threads' = Append(threads,
                                 NewThread("writer",
                                           WriterSlot(bench_main.num_readers, bench_main.i)))
                 /\ bench_main' = [bench_main EXCEPT !.i = @ + 1]
            ELSE BenchThrow /\ UNCHANGED threads
       ELSE /\ bench_main' = [bench_main EXCEPT !.pc = "sleep"]
            /\ UNCHANGED threads
    /\ UNCHANGED <<stop_flag, thread_stats, stat_writers,
                   sched_vars, but_prog, but_bench>>

\* lines 597-598: sleep_for(config.duration) is over
bench_main_598 ==
    /\ bench_main.pc = "sleep"
    /\ BenchGoto("store")
    /\ UNCHANGED <<stop_flag, threads, thread_stats, stat_writers,
                   sched_vars, but_prog, but_bench>>

\* line 599: stop_flag.store(true, std::memory_order_relaxed)
bench_main_599 ==
    /\ bench_main.pc = "store"
    /\ stop_flag' = TRUE
    /\ bench_main' = [bench_main EXCEPT !.pc = "join", !.i = 0]
    /\ UNCHANGED <<threads, thread_stats, stat_writers,
                   sched_vars, but_prog, but_bench>>

\* lines 603-607: t.join() for the threads in the order they were made; join
\* returns when the thread's function has returned
bench_main_603 ==
    /\ bench_main.pc = "join"
    /\ IF bench_main.i < Len(threads)
       THEN /\ threads[bench_main.i + 1].pc = "done"
            /\ threads' = [threads EXCEPT ![bench_main.i + 1].joined = TRUE]
            /\ bench_main' = [bench_main EXCEPT !.i = @ + 1]
       ELSE /\ bench_main' = [bench_main EXCEPT !.pc = "results", !.i = 0]
            /\ UNCHANGED threads
    /\ UNCHANGED <<stop_flag, thread_stats, stat_writers,
                   sched_vars, but_prog, but_bench>>

\* lines 613-626: the totals, a slot of thread_stats at a time
bench_main_618 ==
    /\ bench_main.pc = "results"
    /\ IF bench_main.i < bench_main.num_threads
       THEN LET stats == thread_stats[bench_main.i]
            IN bench_main' =
                 IF stats.operation_type = "read"
                 THEN [bench_main EXCEPT !.i = @ + 1,
                          !.total_read_bytes = @ + stats.bytes_processed,
                          !.total_read_ops = @ + stats.operations]
                 ELSE IF stats.operation_type = "write"
                 THEN [bench_main EXCEPT !.i = @ + 1,
                          !.total_write_bytes = @ + stats.bytes_processed,
                          !.total_write_ops = @ + stats.operations]
                 ELSE [bench_main EXCEPT !.i = @ + 1]
       ELSE BenchGoto("print")
    /\ UNCHANGED <<stop_flag, threads, thread_stats, stat_writers,
                   sched_vars, but_prog, but_bench>>

\* lines 628-666: the results are printed; the try block is left
bench_main_629 ==
    /\ bench_main.pc = "print"
    /\ BenchGoto("cleanup")
    /\ UNCHANGED <<stop_flag, threads, thread_stats, stat_writers,
                   sched_vars, but_prog, but_bench>>

\* lines 668-670: catch (const std::exception &e)
bench_main_668 ==
    /\ bench_main.pc = "caught"
    /\ BenchGoto("cleanup")
    /\ UNCHANGED <<stop_flag, threads, thread_stats, stat_writers,
                   sched_vars, but_prog, but_bench>>

\* lines 672-703: the buffers are freed; return 0
bench_main_672 ==
    /\ bench_main.pc = "cleanup"
    /\ bench_main' = [bench_main EXCEPT !.pc = "exit", !.status = 0]
    /\ UNCHANGED <<stop_flag, threads, thread_stats, stat_writers,
                   sched_vars, but_prog, but_bench>>

\* the process is there for its threads to run
BenchAlive == bench_main.pc \notin {"exit", "terminated"}

\* lines 238-239 and 261-262: stats.thread_id = thread_id and
\* stats.operation_type, by thread t
worker_238(t) ==
    /\ BenchAlive
    /\ t \in 1..Len(threads)
    /\ threads[t].pc = "238"
    /\ thread_stats' = [thread_stats EXCEPT
           ![threads[t].slot].thread_id = threads[t].thread_id,
           ![threads[t].slot].operation_type =
               IF threads[t].fn = "reader" THEN "read" ELSE "write"]
    /\ stat_writers' = [stat_writers EXCEPT ![threads[t].slot] = @ \cup {t}]
    /\ threads' = [threads EXCEPT ![t].pc = "241"]
    /\ UNCHANGED <<bench_main, stop_flag, sched_vars, but_prog, but_bench>>

\* lines 241 and 264: while (!stop_flag.load(std::memory_order_relaxed))
worker_241(t) ==
    /\ BenchAlive
    /\ t \in 1..Len(threads)
    /\ threads[t].pc = "241"
    /\ IF stop_flag
       THEN threads' = [threads EXCEPT ![t].pc = "done"]
       ELSE /\ thread_stats[threads[t].slot].operations < MaxOps
            /\ threads' = [threads EXCEPT ![t].pc = "243"]
    /\ UNCHANGED <<bench_main, stop_flag, thread_stats, stat_writers,
                   sched_vars, but_prog, but_bench>>

\* lines 243-251 and 266-274: a block is copied, and stats.bytes_processed and
\* stats.operations are updated
worker_243(t) ==
    /\ BenchAlive
    /\ t \in 1..Len(threads)
    /\ threads[t].pc = "243"
    /\ thread_stats' = [thread_stats EXCEPT
           ![threads[t].slot].bytes_processed = @ + BenchBlockSize,
           ![threads[t].slot].operations = @ + 1]
    /\ stat_writers' = [stat_writers EXCEPT ![threads[t].slot] = @ \cup {t}]
    /\ threads' = [threads EXCEPT ![t].pc = "241"]
    /\ UNCHANGED <<bench_main, stop_flag, sched_vars, but_prog, but_bench>>

BenchSetup ==
    \/ bench_main_372
    \/ \E ok \in BOOLEAN : bench_main_433(ok)
    \/ bench_main_563
BenchCreate ==
    \/ \E ok \in BOOLEAN : bench_main_568(ok)
    \/ \E ok \in BOOLEAN : bench_main_582(ok)
BenchStop == bench_main_598 \/ bench_main_599 \/ bench_main_603
BenchResults == bench_main_618 \/ bench_main_629 \/ bench_main_668 \/ bench_main_672
BenchMain == BenchSetup \/ BenchCreate \/ BenchStop \/ BenchResults
Worker(t) == worker_238(t) \/ worker_241(t) \/ worker_243(t)
BenchWorkers == \E t \in 1..MaxThreads : Worker(t)

NextBench == BenchMain \/ BenchWorkers

\* the benchmark started with any number of threads and any read ratio
InitBench ==
    /\ SchedInit /\ EnqInit /\ SelectInit /\ StopInit /\ HelperInit /\ MonInit
    /\ LoaderInit /\ BwInit
    /\ \E num_threads \in NumThreads, read_ratio \in ReadRatios :
           BenchInitWith(num_threads, read_ratio)

\* main goes on while it can, and so does every thread: the host runs each
\* thread that is ready
BenchFairness ==
    /\ WF_vars(BenchStop \/ BenchResults)
    /\ \A t \in 1..MaxThreads : WF_vars(Worker(t))

SpecBench == InitBench /\ [][NextBench]_vars

SpecBenchFair == SpecBench /\ BenchFairness

\* ------------------------------------------------------------- properties
\* the number of entries of the queue that hold task p
DsqCount(q, p) == Cardinality({i \in 1..Len(q) : q[i].task = p})

\* the entry of the queue that holds task p
DsqEntry(q, p) == q[CHOOSE i \in 1..Len(q) : q[i].task = p]

\* a step in which cxl_enqueue(p) is called and returns
EnqueueStep(p) == task_state[p] = "ready" /\ task_state'[p] = "queued"

\* C1: every cxl_enqueue(p) of cxl_minimal leaves p in the fallback queue exactly
\* once: the call adds one entry for p and none for any other task, a task is in
\* the queue exactly while the host holds it as enqueued, and the entry is linked
\* by virtual time exactly when the call left the task with a context (first-in
\* first-out when it could not obtain one).
C1_EnqueueInsertsExactlyOnce ==
    [][/\ \A p \in Tasks :
            EnqueueStep(p) =>
                /\ Len(dsq') = Len(dsq) + 1
                /\ DsqCount(dsq, p) = 0
                /\ DsqCount(dsq', p) = 1
                /\ \A q \in Tasks \ {p} : DsqCount(dsq', q) = DsqCount(dsq, q)
                /\ DsqEntry(dsq', p).priq => task_ctx_stor'[p].present
                /\ ~DsqEntry(dsq', p).priq => task_ctx_stor'[p] = task_ctx_stor[p]
       /\ \A p \in Tasks :
            DsqCount(dsq', p) = IF task_state'[p] = "queued" THEN 1 ELSE 0]_vars

\* C1 witness: the queue holds a task inserted first-in first-out and a task
\* inserted by virtual time.
C1_Witness ==
    \E p, q \in Tasks :
        /\ task_state[p] = "queued" /\ task_state[q] = "queued"
        /\ InDsq(dsq, p) /\ InDsq(dsq, q)
        /\ DsqEntry(dsq, p).priq /\ ~DsqEntry(dsq, q).priq

\* C2: in cxl_pmu a task handed to cxl_enqueue is held in the fallback queue once
\* the call has returned, where cxl_dispatch finds it.
C2_PmuEnqueueKeepsTask ==
    \A p \in Tasks : task_state[p] = "queued" => InDsq(dsq, p)

\* a step in which cxl_dispatch moves task p to the calling CPU
DispatchStep(p) == task_state[p] = "queued" /\ task_state'[p] = "local"

\* C3: the task cxl_dispatch moves to the CPU has the least virtual time, in the
\* wrap-safe order, of all tasks in the fallback queue at the call, whichever way
\* they were inserted.
C3_DispatchTakesMinVtime ==
    [][\A p \in Tasks :
          DispatchStep(p) =>
              \A q \in Tasks :
                  InDsq(dsq, q) => ~vtime_before(dsq_vtime[q], dsq_vtime[p])]_vars

\* C3, with no task in the queue that entered by the first-in first-out insert.
C3_MinVtimeAmongVtimeInserts ==
    [][\A p \in Tasks :
          (DispatchStep(p) /\ \A i \in 1..Len(dsq) : dsq[i].priq) =>
              \A q \in Tasks :
                  InDsq(dsq, q) => ~vtime_before(dsq_vtime[q], dsq_vtime[p])]_vars

\* C4: under fair scheduling a task that is not VectorDB-like (a regular task or a
\* kworker) and that cxl_enqueue inserted into the fallback queue by virtual time
\* is eventually moved to a CPU by cxl_dispatch, however often VectorDB-like
\* tasks are enqueued again.  (Stated for the waiting tasks whose virtual time
\* leaves the other tasks room for the charge of a whole slice below MaxVtime.)
C4_QueuedEventuallyDispatched ==
    \A p \in Tasks :
        (/\ task_state[p] = "queued"
         /\ InDsq(dsq, p)
         /\ DsqEntry(dsq, p).priq
         /\ ~task_ctx_stor[p].is_vectordb
         /\ S64(dsq_vtime[p]) <= MaxVtime - SCX_SLICE_DFL)
            ~> (task_state[p] = "local")

\* no call of cxl_running is between its read and its write of global_vtime
NoRunningCall == \A p \in Tasks : task_state[p] # "running:117"

\* C5: with cxl_running called from several CPUs at once, global_vtime never
\* decreases, and whenever no call is in progress it is not before the virtual
\* time of any task that has started running.
C5_ConcurrentRunningAdvances ==
    [][/\ ~vtime_before(global_vtime', global_vtime)
       /\ (NoRunningCall' /\ started_vtime' # NO_VTIME) =>
              ~vtime_before(global_vtime', started_vtime')]_vars

\* a step in which cxl_running(p) is called and returns
RunningStep(p) == task_state[p] = "local" /\ task_state'[p] = "running"

\* C6: with the calls of cxl_running one after another, global_vtime never
\* decreases in the wrap-safe order: a call for task p leaves it unchanged, or
\* sets it to p's virtual time when that is later, and no step other than a call
\* of cxl_running changes it.
C6_GlobalVtimeNeverDecreases ==
    [][/\ ~vtime_before(global_vtime', global_vtime)
       /\ \A p \in Tasks :
            RunningStep(p) =>
                global_vtime' = IF vtime_before(global_vtime, dsq_vtime[p])
                                THEN dsq_vtime[p] ELSE global_vtime
       /\ global_vtime' # global_vtime => \E p \in Tasks : RunningStep(p)]_vars

\* C6 witness: a call of cxl_running has advanced global_vtime to the virtual time
\* of its task, and a task of earlier virtual time has started running since
\* without changing it.
C6_Witness ==
    \E p, q \in Tasks :
        /\ task_state[p] = "running" /\ task_state[q] = "running"
        /\ dsq_vtime[p] = global_vtime
        /\ S64(global_vtime) > 0
        /\ vtime_before(dsq_vtime[q], global_vtime)

\* C7: global_vtime is not before the virtual time any task had when it started
\* running: not before the virtual time of a task that is running, and not before
\* the latest virtual time of all run-starts so far.
C7_GlobalVtimeCoversRunStarts ==
    /\ \A p \in Tasks :
          task_state[p] = "running" => ~vtime_before(global_vtime, dsq_vtime[p])
    /\ started_vtime # NO_VTIME => ~vtime_before(global_vtime, started_vtime)

\* C7 witness: a task that started running at a virtual time after zero has
\* stopped and been charged, and global_vtime is the virtual time of its run-start.
C7_Witness ==
    \E p \in Tasks :
        /\ task_state[p] = "ready"
        /\ S64(started_vtime) > 0
        /\ global_vtime = started_vtime
        /\ vtime_before(global_vtime, dsq_vtime[p])

\* the task is the same task before and after the step
SameTask(p) == task_state[p] # "none" /\ task_state'[p] # "none"

\* C8: over the life of a task its virtual time never decreases except in
\* cxl_enqueue, and one cxl_enqueue leaves it at most one slice before the value
\* it had at the call.
C8_VtimeLoweredOnlyAtEnqueue ==
    [][\A p \in Tasks :
          SameTask(p) =>
              IF EnqueueStep(p)
              THEN S64(U64(dsq_vtime'[p] - dsq_vtime[p])) >= 0 - SCX_SLICE_DFL
              ELSE ~vtime_before(dsq_vtime'[p], dsq_vtime[p])]_vars

\* C8 witness: a VectorDB-like task is in the queue with a virtual time before
\* zero, one slice below the virtual time it had when it was enqueued, and a task
\* has been charged by cxl_stopping.
C8_Witness ==
    \E p, q \in Tasks :
        /\ task_state[p] = "queued"
        /\ task_ctx_stor[p].is_vectordb
        /\ S64(dsq_vtime[p]) < 0
        /\ task_state[q] = "ready"
        /\ S64(dsq_vtime[q]) > 0

\* C9: a cxl_enqueue that has the task's context inserts the task with the later
\* of its virtual time and global_vtime less one slice, less one slice for a
\* VectorDB-like task, plus one slice for a kworker.
C9_EnqueueVtimeFormula ==
    [][\A p \in Tasks :
          (EnqueueStep(p) /\ task_ctx_stor'[p].present) =>
              LET slice == SCX_SLICE_DFL
                  base == VtimeMax(dsq_vtime[p], U64(global_vtime - slice))
                  bonus == IF task_ctx_stor'[p].is_vectordb THEN slice ELSE 0
                  penalty == IF task_ctx_stor'[p].is_kworker THEN slice ELSE 0
              IN  /\ dsq_vtime'[p] = U64(base - bonus + penalty)
                  /\ DsqEntry(dsq', p).priq]_vars

\* C9 witness: a kworker whose virtual time was more than a slice behind
\* global_vtime is in the queue at global_vtime, and a VectorDB-like task that was
\* less than a slice behind global_vtime is in the queue one slice below its own
\* virtual time.
C9_Witness ==
    \E p, q \in Tasks :
        /\ task_state[p] = "queued" /\ task_state[q] = "queued"
        /\ task_ctx_stor[p].is_kworker /\ DsqEntry(dsq, p).priq
        /\ S64(global_vtime) > SCX_SLICE_DFL
        /\ dsq_vtime[p] = global_vtime
        /\ task_ctx_stor[q].is_vectordb /\ DsqEntry(dsq, q).priq
        /\ vtime_before(U64(global_vtime - 2 * SCX_SLICE_DFL), dsq_vtime[q])

\* C10: a cxl_enqueue that cannot get the task's context puts the task at the end
\* of the fallback queue and changes neither its virtual time nor its context;
\* as long as the host holds such a task as enqueued it is in the queue, where
\* cxl_dispatch takes it once it is at the head.
C10_FallbackEnqueueKeepsTask ==
    [][/\ \A p \in Tasks :
            (EnqueueStep(p) /\ ~task_ctx_stor'[p].present) =>
                /\ dsq' = Append(dsq, Entry(p, FALSE))
                /\ dsq_vtime'[p] = dsq_vtime[p]
                /\ task_ctx_stor'[p] = task_ctx_stor[p]
       /\ \A p \in Tasks :
            (task_state'[p] = "queued" /\ ~task_ctx_stor'[p].present) =>
                InDsq(dsq', p)
       /\ \A p \in Tasks :
            (task_state[p] = "queued" /\ ~task_ctx_stor[p].present
                 /\ task_state'[p] # "queued") =>
                /\ Head(dsq).task = p
                /\ task_state'[p] = "local"]_vars

\* C10 witness: a task whose context could not be created, with a virtual time
\* more than a slice behind global_vtime, has been dispatched from the queue
\* while another such task waits in it.
C10_Witness ==
    \E p, q \in Tasks :
        /\ task_state[p] = "local" /\ ~task_ctx_stor[p].present
        /\ vtime_before(dsq_vtime[p], U64(global_vtime - SCX_SLICE_DFL))
        /\ task_state[q] = "queued" /\ ~task_ctx_stor[q].present
        /\ InDsq(dsq, q)

\* a step in which cxl_init_task(p) is called and returns
InitTaskStep(p) == task_state[p] = "none" /\ task_state'[p] = "ready"

\* C11: no call of cxl_init_task reports an error to the host: when the task's
\* context cannot be allocated the call still returns 0.
C11_InitTaskNeverFails ==
    [][\A p \in Tasks :
          InitTaskStep(p) => cxl_init_task_ret(task_ctx_stor'[p].present) = 0]_vars

\* the tasks the host holds as enqueued
QueuedTasks == {p \in Tasks : task_state[p] = "queued"}

\* C12: with cxl_enqueue and cxl_dispatch interleaved on several CPUs, the
\* fallback queue holds every enqueued task once and nothing else, a task is
\* never both in the queue and on a CPU, a task is on at most one CPU, and a
\* dispatch removes from the queue exactly the task it moves to its CPU.
C12_QueueAtomicUnderInterleaving ==
    [][/\ Len(dsq') = Cardinality(QueuedTasks')
       /\ \A p \in QueuedTasks' : InDsq(dsq', p) /\ task_cpu'[p] = NO_CPU
       /\ \A i, j \in 1..Len(dsq') : dsq'[i].task = dsq'[j].task => i = j
       /\ \A p \in Tasks :
            task_cpu'[p] # NO_CPU <=> task_state'[p] \in {"local", "running"}
       /\ \A p \in Tasks :
            DispatchStep(p) =>
                /\ Head(dsq).task = p
                /\ dsq' = Tail(dsq)
                /\ {q \in Tasks : task_cpu'[q] = task_cpu'[p]} = {p}
                /\ \A q \in Tasks \ {p} :
                      task_state'[q] = task_state[q] /\ task_cpu'[q] = task_cpu[q]]_vars

\* C12 witness: a CPU has taken a task from the queue while a cxl_enqueue of
\* another task on another CPU is between its computation and its insert, and
\* that task's virtual time is before the one of the task taken.
C12_Witness ==
    \E p, q \in Tasks :
        /\ task_state[p] = "local"
        /\ task_ctx_stor[p].present
        /\ task_state[q] = "enqueue:105"
        /\ vtime_before(enq_vtime[q], dsq_vtime[p])

\* a step in which cxl_select_cpu is called and returns
SelectStep == select_call' # select_call \/ (cpu_idle' # cpu_idle /\ cpu_idle' \subseteq cpu_idle)

StopStep(p) == task_state[p] = "running" /\ task_state'[p] = "ready"

\* the tasks that have stopped
Stopped == {p \in Tasks : task_state[p] = "ready"}

\* C14: cxl_stopping advances the virtual time of the task by
\* (SCX_SLICE_DFL - p->scx.slice) * 100 / p->scx.weight: by nothing when the
\* whole slice is left, never by a negative amount, of two tasks of the same
\* weight the one with more of its slice left is charged no more than the other,
\* and of two tasks with the same part left the heavier is charged no more.
C14_StoppingChargesConsumedSlice ==
    [][/\ \A p \in Tasks :
            StopStep(p) =>
                LET advance == S64(U64(dsq_vtime'[p] - dsq_vtime[p]))
                IN  /\ advance = ((SCX_SLICE_DFL - scx_slice[p]) * 100) \div scx_weight[p]
                    /\ advance >= 0
                    /\ scx_slice[p] = SCX_SLICE_DFL => advance = 0
       /\ \A p, q \in Stopped' :
            (scx_weight[p] = scx_weight[q] /\ scx_slice[p] >= scx_slice[q]) =>
                S64(dsq_vtime'[p]) <= S64(dsq_vtime'[q])
       /\ \A p, q \in Stopped' :
            (scx_slice[p] = scx_slice[q] /\ scx_weight[p] >= scx_weight[q]) =>
                S64(dsq_vtime'[p]) <= S64(dsq_vtime'[q])]_vars

\* C14 witness: two tasks of the same weight have stopped, one with nothing of
\* its slice left and one with part of it left, and the second was charged less.
C14_Witness ==
    \E p, q \in Stopped :
        /\ scx_weight[p] = scx_weight[q]
        /\ scx_slice[p] = 0
        /\ scx_slice[q] > 0
        /\ S64(dsq_vtime[q]) < S64(dsq_vtime[p])

\* C15: for every pair (read_bytes, write_bytes), classify_io_pattern returns
\* Unknown when both counters are zero, and otherwise ReadHeavy exactly when the
\* read share read_bytes / (read_bytes + write_bytes) is greater than 80%,
\* WriteHeavy exactly when it is less than 20%, and Mixed in all other cases.
C15_ClassifyByExactReadShare ==
    classify_ret # NO_RET =>
        LET r == damon_data.read_bytes
            w == damon_data.write_bytes
        IN  classify_ret =
                IF r = 0 /\ w = 0 THEN "IO_PATTERN_UNKNOWN"
                ELSE IF r * 100 > 80 * (r + w) THEN "IO_PATTERN_READ_HEAVY"
                ELSE IF r * 100 < 20 * (r + w) THEN "IO_PATTERN_WRITE_HEAVY"
                ELSE "IO_PATTERN_MIXED"

\* C16: after any sequence of update_damon_data calls the stored io_pattern is
\* classify_io_pattern of the stored read_bytes and write_bytes, and classifying
\* the entry again while it is unchanged returns the stored value.
C16_IoPatternConsistentWithCounters ==
    [][/\ damon_data'.present =>
              damon_data'.io_pattern = classify_io_pattern(damon_data')
       /\ (damon_data.present /\ damon_data' = damon_data /\ se' = se /\ now' = now)
              => classify_ret' = damon_data.io_pattern]_vars

\* update_damon_data has changed a counter and with it the stored io_pattern, and
\* classify_io_pattern called on the entry has returned the stored value
C16_Witness ==
    /\ damon_data.present
    /\ damon_data.read_bytes > 0
    /\ damon_data.write_bytes > 0
    /\ damon_data.io_pattern = "IO_PATTERN_MIXED"
    /\ classify_ret = "IO_PATTERN_MIXED"

\* C17: locality_score stays within [0,100] after any sequence of
\* update_damon_data observations, starting from the initial value 50.
C17_LocalityScoreInRange ==
    damon_data.present => damon_data.locality_score \in 0..100

\* observations have raised the score of a task with a read-heavy or write-heavy
\* pattern from 50 to the ceiling
C17_Witness ==
    /\ damon_data.present
    /\ damon_data.nr_accesses > 0
    /\ damon_data.io_pattern \in {"IO_PATTERN_READ_HEAVY", "IO_PATTERN_WRITE_HEAVY"}
    /\ damon_data.locality_score = 100

\* observations have lowered the score from 50 to the floor
LocalityAtFloor ==
    /\ damon_data.present
    /\ damon_data.nr_accesses > 0
    /\ damon_data.locality_score = 0

\* the adjustments of the per-type table whose conditions hold for the task's own
\* workload type; a condition on a pattern or on telemetry that is missing does
\* not hold, and a type without a row has no adjustment
TableAdjustments(tctx, pattern, cpu) ==
    LET m == cpu.cxl_metrics
        Row(cond, delta) == IF cond THEN delta ELSE 0
        ReadHeavy == pattern.present /\ pattern.io_pattern = "IO_PATTERN_READ_HEAVY"
        WriteHeavy == pattern.present /\ pattern.io_pattern = "IO_PATTERN_WRITE_HEAVY"
    IN  CASE tctx.type = "TASK_TYPE_MOE_VECTORDB" ->
                 Row(pattern.present /\ pattern.locality_score > 80, 0 - 20)
                 + Row(cpu.present /\ m.memory_bandwidth > 1000, 0 - 10)
          [] tctx.type = "TASK_TYPE_READ_INTENSIVE" ->
                 Row(cpu.present /\ m.read_bandwidth > 70, 0 - 15)
                 + Row(ReadHeavy, 0 - 10)
          [] tctx.type = "TASK_TYPE_WRITE_INTENSIVE" ->
                 Row(cpu.present /\ m.write_bandwidth > 70, 0 - 15)
                 + Row(WriteHeavy, 0 - 10)
          [] tctx.type = "TASK_TYPE_BANDWIDTH_TEST" ->
                 Row(tctx.is_bandwidth_critical, 0 - 30)
                 + Row(cpu.present /\
                       \/ (ReadHeavy /\ m.read_bandwidth > m.write_bandwidth)
                       \/ (WriteHeavy /\ m.write_bandwidth > m.read_bandwidth),
                       0 - 10)
          [] tctx.type = "TASK_TYPE_KWORKER" ->
                 Row(tctx.needs_promotion, 0 - 15)
                 + Row(cpu.present /\ m.cxl_utilization > 90, 10)
          [] tctx.type = "TASK_TYPE_LATENCY_SENSITIVE" -> 0 - 25
          [] tctx.type = "TASK_TYPE_REGULAR" ->
                 Row(pattern.present /\ pattern.locality_score < 30, 10)
          [] OTHER -> 0

\* a call of calculate_task_priority has been made in this step
PrioStep == prio_call' # prio_call

\* C18: with priority_boost = 0, calculate_task_priority returns the base 120 plus
\* the sum of exactly those adjustments of the per-type table whose conditions hold
\* for the task's own workload type; a LatencySensitive task always gets 95, and a
\* ReadIntensive task with read_bandwidth = 80 and io_pattern = ReadHeavy gets 95.
C18_PriorityIsBasePlusTableRows ==
    [][(PrioStep /\ prio_call.tctx.priority_boost = 0) =>
           prio_call'.ret = 120 + TableAdjustments(prio_call.tctx, damon_data,
                                                   cpu_contexts)]_vars

\* The same for the tasks whose type is neither Unknown nor BandwidthTest, with the
\* two instances the statement names.
TableRowsOfOtherTypes ==
    [][(/\ PrioStep
        /\ prio_call.tctx.priority_boost = 0
        /\ prio_call.tctx.type \notin {"TASK_TYPE_UNKNOWN", "TASK_TYPE_BANDWIDTH_TEST"})
       => /\ prio_call'.ret = 120 + TableAdjustments(prio_call.tctx, damon_data,
                                                      cpu_contexts)
          /\ prio_call.tctx.type = "TASK_TYPE_LATENCY_SENSITIVE" => prio_call'.ret = 95
          /\ (/\ prio_call.tctx.type = "TASK_TYPE_READ_INTENSIVE"
              /\ cpu_contexts.present
              /\ cpu_contexts.cxl_metrics.read_bandwidth = 80
              /\ damon_data.present
              /\ damon_data.io_pattern = "IO_PATTERN_READ_HEAVY")
             => prio_call'.ret = 95]_vars

\* C19: for every priority_boost b and every table outcome t,
\* calculate_task_priority returns t - b when t > b and 1 otherwise; the result is
\* never 0, never negative and never an underflowed unsigned value: it is in 1..130.
C19_BoostFlooredAtOne ==
    [][PrioStep =>
           LET t == TablePriority(prio_call.tctx, damon_data, cpu_contexts)
               b == prio_call.tctx.priority_boost
           IN  /\ prio_call'.ret = IF t > b THEN t - b ELSE 1
               /\ prio_call'.ret \in 1..130]_vars

\* a call on a task whose boost was at least the table outcome has returned 1
C19_Witness ==
    /\ prio_call.ret = 1
    /\ prio_call.tctx.priority_boost >= 130

\* a call of update_cxl_pmu_metrics has refreshed the entry in this step
RefreshStep == cpu_contexts' # cpu_contexts

\* C20: after every update_cxl_pmu_metrics refresh, is_read_optimized is true
\* exactly when active_read_tasks > active_write_tasks and is_write_optimized is
\* true exactly when active_write_tasks > active_read_tasks; the flags are never
\* both true, and both are false when the counts are equal.
C20_OptimizedFlagsExclusive ==
    [][RefreshStep =>
           LET c == cpu_contexts'
           IN  /\ c.is_read_optimized <=> (c.active_read_tasks > c.active_write_tasks)
               /\ c.is_write_optimized <=> (c.active_write_tasks > c.active_read_tasks)
               /\ ~(c.is_read_optimized /\ c.is_write_optimized)
               /\ c.active_read_tasks = c.active_write_tasks =>
                      (~c.is_read_optimized /\ ~c.is_write_optimized)]_vars

\* a refresh of a CPU with 5 active read tasks and 1 active write task has set
\* is_read_optimized and cleared is_write_optimized
C20_Witness ==
    /\ cpu_contexts.present
    /\ cpu_contexts.cxl_metrics.memory_bandwidth >= 800
    /\ cpu_contexts.active_read_tasks = 5
    /\ cpu_contexts.active_write_tasks = 1
    /\ cpu_contexts.is_read_optimized
    /\ ~cpu_contexts.is_write_optimized

\* C21: for a task whose name does not change, every cxl_enqueue that has the
\* task's context leaves in it the classification that the first one left: the
\* flags read from the name.  An enqueue of a task that has a flag set changes
\* nothing, and an enqueue of a task with no flag set reads the same flags from
\* the name again.
C21_ReclassificationIdempotent ==
    [][\A p \in Tasks :
          (EnqueueStep(p) /\ task_ctx_stor'[p].present /\ comm'[p] = comm[p]) =>
              /\ task_ctx_stor'[p] = ClassifyIfNeeded(ZeroCtx, comm[p])
              /\ task_ctx_stor[p] = ClassifyIfNeeded(ZeroCtx, comm[p]) =>
                     task_ctx_stor'[p] = task_ctx_stor[p]
              /\ ClassifyIfNeeded(task_ctx_stor'[p], comm[p]) = task_ctx_stor'[p]]_vars

\* C21 witness: a task whose first classification set no flag, and a VectorDB-like
\* task, are each in the queue again after they have run and stopped (their
\* virtual time is past the clock, which only a stop brings about for a task
\* that is no kworker).
C21_Witness ==
    \E p, q \in Tasks :
        /\ task_state[p] = "queued" /\ task_state[q] = "queued"
        /\ task_ctx_stor[p] = ZeroCtx
        /\ task_ctx_stor[q].present /\ task_ctx_stor[q].is_vectordb
        /\ vtime_before(global_vtime, dsq_vtime[p])
        /\ vtime_before(global_vtime, dsq_vtime[q])

\* C22: at every vtime-ordered insert by cxl_enqueue the inserted virtual time is
\* not before global_vtime - 2 * slice for a VectorDB-like task, not before
\* global_vtime - slice for an unclassified task and not before global_vtime for
\* a kworker (global_vtime as the call reads it), however many times the task is
\* enqueued again.
C22_InsertNotFarAheadOfClock ==
    [][\A p \in Tasks :
          (EnqueueStep(p) /\ task_ctx_stor'[p].present) =>
              LET tctx == task_ctx_stor'[p]
                  slice == SCX_SLICE_DFL
                  limit == IF tctx.is_vectordb THEN U64(global_vtime - 2 * slice)
                           ELSE IF tctx.is_kworker THEN global_vtime
                           ELSE U64(global_vtime - slice)
              IN  /\ DsqEntry(dsq', p).priq
                  /\ ~vtime_before(dsq_vtime'[p], limit)]_vars

\* C22 witness: after the clock has moved, a VectorDB-like task is in the queue
\* exactly two slices before the clock and an unclassified task exactly one slice
\* before it.
C22_Witness ==
    \E p, q \in Tasks :
        /\ S64(global_vtime) > 0
        /\ task_state[p] = "queued" /\ task_state[q] = "queued"
        /\ task_ctx_stor[p].present /\ task_ctx_stor[p].is_vectordb
        /\ dsq_vtime[p] = U64(global_vtime - 2 * SCX_SLICE_DFL)
        /\ task_ctx_stor[q] = ZeroCtx
        /\ dsq_vtime[q] = U64(global_vtime - SCX_SLICE_DFL)

Min(a, b) == IF a < b THEN a ELSE b
Max(a, b) == IF a > b THEN a ELSE b

\* a call of update_damon_data has updated the entry of a pid that had one (an
\* observation that is not the first)
ObserveStep == damon_data.present /\ damon_data' # damon_data

\* C23: on each observation that is not the first, update_damon_data changes
\* locality_score s to max(0, s - 10) when exec_delta exceeds nr_accesses * 500
\* and to min(100, s + 5) otherwise, and then once more to min(100, s + 5) when
\* the recomputed io_pattern is ReadHeavy or WriteHeavy.  (exec_delta and
\* nr_accesses are the values the call computes.)
C23_LocalityStepRule ==
    [][ObserveStep =>
          LET s == damon_data.locality_score
              exec_delta == ExecDelta(damon_data, se)
              byExec == IF exec_delta > damon_data'.nr_accesses * 500
                        THEN Max(0, s - 10)
                        ELSE Min(100, s + 5)
              byIo == IF damon_data'.io_pattern \in {"IO_PATTERN_READ_HEAVY",
                                                      "IO_PATTERN_WRITE_HEAVY"}
                      THEN Min(100, byExec + 5)
                      ELSE byExec
          IN  damon_data'.locality_score = byIo]_vars

\* C24: for a task without a memory descriptor (p->mm is NULL) update_damon_data
\* skips only the working-set estimate: read_bytes, write_bytes,
\* total_access_time, io_pattern and locality_score are updated from the task's
\* execution delta exactly as they would be with a memory descriptor.
C24_NoMmSkipsOnlyWorkingSet ==
    [][(ObserveStep /\ ~se.mm) =>
          LET with_mm == update_damon_data(damon_data, [se EXCEPT !.mm = TRUE], now)
          IN  damon_data' =
                  [with_mm EXCEPT !.working_set_size = damon_data.working_set_size]]_vars

\* C25: over any sequence of update_damon_data observations of a task, read_bytes
\* and write_bytes never decrease, and one observation increases at most one of
\* them: read_bytes by exec_delta / 1000 when exec_delta > nr_accesses * 1000,
\* otherwise write_bytes by exec_delta / 2000 (exec_delta and nr_accesses as the
\* function has them at line 247); the first observation leaves both at 0 with
\* locality_score 50 and io_pattern Unknown.
C25_CountersGrowOneAtATime ==
    [][/\ damon_data'.read_bytes >= damon_data.read_bytes
       /\ damon_data'.write_bytes >= damon_data.write_bytes
       /\ ObserveStep =>
              LET exec_delta == ExecDelta(damon_data, se)
                  nr_accesses == damon_data'.nr_accesses
              IN  IF exec_delta > nr_accesses * 1000
                  THEN /\ damon_data'.read_bytes =
                              damon_data.read_bytes + exec_delta \div 1000
                       /\ damon_data'.write_bytes = damon_data.write_bytes
                  ELSE /\ damon_data'.write_bytes =
                              damon_data.write_bytes + exec_delta \div 2000
                       /\ damon_data'.read_bytes = damon_data.read_bytes
       /\ (~damon_data.present /\ damon_data'.present) =>
              /\ damon_data'.read_bytes = 0
              /\ damon_data'.write_bytes = 0
              /\ damon_data'.locality_score = 50
              /\ damon_data'.io_pattern = "IO_PATTERN_UNKNOWN"]_vars

\* both counters have been increased, by different observations
C25_Witness ==
    /\ damon_data.present
    /\ damon_data.read_bytes > 0
    /\ damon_data.write_bytes > 0

\* C26: after every update_cxl_pmu_metrics refresh, read_bandwidth is
\* memory_bandwidth * 60 / 100 and write_bandwidth is memory_bandwidth * 40 / 100,
\* except that exactly the side with strictly more active tasks has 100 added;
\* with equal counts of active read and write tasks neither side has the bonus.
C26_BandwidthSplitAndBonus ==
    [][RefreshStep =>
           LET c == cpu_contexts'
               m == c.cxl_metrics
               rd == (m.memory_bandwidth * 60) \div 100
               wr == (m.memory_bandwidth * 40) \div 100
           IN  /\ m.read_bandwidth =
                      rd + (IF c.active_read_tasks > c.active_write_tasks
                            THEN 100 ELSE 0)
               /\ m.write_bandwidth =
                      wr + (IF c.active_write_tasks > c.active_read_tasks
                            THEN 100 ELSE 0)
               /\ c.active_read_tasks = c.active_write_tasks =>
                      (m.read_bandwidth = rd /\ m.write_bandwidth = wr)]_vars

\* a refresh of a CPU with 1 active read task and 5 active write tasks has added
\* 100 to the write side only
C26_Witness ==
    /\ cpu_contexts.present
    /\ cpu_contexts.active_read_tasks = 1
    /\ cpu_contexts.active_write_tasks = 5
    /\ cpu_contexts.cxl_metrics.memory_bandwidth = 1001
    /\ cpu_contexts.cxl_metrics.read_bandwidth = 600
    /\ cpu_contexts.cxl_metrics.write_bandwidth = 500

\* C27: after every update_cxl_pmu_metrics refresh, at any value of the clock,
\* memory_bandwidth is in 800..1200, cache_hit_rate in 85..100, memory_latency in
\* 100..200 and cxl_utilization in 60..100, and is_cxl_attached is true exactly
\* when memory_latency > 150.
C27_TelemetryInDocumentedRanges ==
    [][RefreshStep =>
           LET c == cpu_contexts'
               m == c.cxl_metrics
           IN  /\ m.memory_bandwidth \in 800..1200
               /\ m.cache_hit_rate \in 85..100
               /\ m.memory_latency \in 100..200
               /\ m.cxl_utilization \in 60..100
               /\ c.is_cxl_attached <=> (m.memory_latency > 150)]_vars

\* a refresh at 399 ms has stored the largest bandwidth and latency and has
\* marked the CPU as CXL-attached
C27_Witness ==
    /\ cpu_contexts.present
    /\ cpu_contexts.cxl_metrics.last_update_time = 399 * 1000000
    /\ cpu_contexts.cxl_metrics.memory_bandwidth = 1199
    /\ cpu_contexts.cxl_metrics.memory_latency = 199
    /\ cpu_contexts.is_cxl_attached

\* C28: calculate_task_priority changes nothing except the task's own
\* priority_boost: the task's type and flags, the access pattern and the CPU
\* telemetry handed to it are the same after the call, and with priority_boost = 0
\* the call changes no state at all.
C28_OnlyPriorityBoostWritten ==
    [][PrioStep =>
           /\ prio_call'.tctx = [prio_call.tctx EXCEPT
                                     !.priority_boost = prio_call'.tctx.priority_boost]
           /\ UNCHANGED <<damon_data, cpu_contexts>>
           /\ UNCHANGED <<sched_vars, but_helper, se, now, classify_ret>>
           /\ prio_call.tctx.priority_boost = 0 =>
                  prio_call'.tctx = prio_call.tctx]_vars

\* a call on a kernel worker that needs promotion and has a boost of 7 has
\* returned 120 - 15 - 7, has lowered the boost to 2 and has left the flag and the
\* type alone
C28_Witness ==
    /\ prio_call.ret = 98
    /\ prio_call.tctx.priority_boost = 2
    /\ prio_call.tctx.needs_promotion
    /\ prio_call.tctx.type = "TASK_TYPE_KWORKER"
    /\ damon_data.present
    /\ cpu_contexts.present

\* C29: over successive calculate_task_priority calls on one task, with no other
\* writer of priority_boost, the boost decays by 5 per call floored at 0: it never
\* increases, it is 0 after at most ceil(b / 5) calls from an initial value b and
\* stays 0 afterwards, and every call made once it is 0 returns the table result.
C29_BoostDecaysToZero ==
    [][PrioStep =>
           LET b == prio_call.tctx.priority_boost
               after == prio_call'.tctx.priority_boost
               calls == prio_call'.calls
               b0 == prio_call.boost0
           IN  /\ after = Max(0, b - 5)
               /\ after <= b
               /\ after = Max(0, b0 - 5 * calls)
               /\ calls >= (b0 + 4) \div 5 => after = 0
               /\ b = 0 =>
                      /\ after = 0
                      /\ prio_call'.ret =
                             TablePriority(prio_call.tctx, damon_data, cpu_contexts)]_vars

\* a task that began with a boost of 135 has been through ceil(135 / 5) = 27 calls,
\* which brought the boost to 0, and one more, which returned the table result of
\* a latency-sensitive task
C29_Witness ==
    /\ prio_call.boost0 = 135
    /\ prio_call.calls = 28
    /\ prio_call.tctx.priority_boost = 0
    /\ prio_call.tctx.type = "TASK_TYPE_LATENCY_SENSITIVE"
    /\ prio_call.ret = 95

\* C30: for a BandwidthTest task calculate_task_priority applies the additional
\* -10 exactly when the task's io_pattern matches the dominant bandwidth leg of the
\* CPU telemetry (ReadHeavy while read_bandwidth is the larger leg, WriteHeavy
\* while write_bandwidth is the larger leg), and never when the pattern is Mixed
\* or Unknown.  With priority_boost = 0 the value returned shows the adjustment.
C30_BandwidthTestMatchesDominantLeg ==
    [][(/\ PrioStep
        /\ prio_call.tctx.type = "TASK_TYPE_BANDWIDTH_TEST"
        /\ prio_call.tctx.priority_boost = 0)
       => LET m == cpu_contexts.cxl_metrics
              critical == IF prio_call.tctx.is_bandwidth_critical THEN 30 ELSE 0
              matches ==
                  /\ damon_data.present
                  /\ cpu_contexts.present
                  /\ \/ /\ damon_data.io_pattern = "IO_PATTERN_READ_HEAVY"
                        /\ m.read_bandwidth > m.write_bandwidth
                     \/ /\ damon_data.io_pattern = "IO_PATTERN_WRITE_HEAVY"
                        /\ m.write_bandwidth > m.read_bandwidth
          IN  prio_call'.ret = 120 - critical - (IF matches THEN 10 ELSE 0)]_vars

\* the part of C30 the code keeps: a BandwidthTest task whose pattern is Mixed or
\* Unknown, or that has no pattern, never gets the additional -10
BandwidthTestNeverForMixedOrUnknown ==
    [][(/\ PrioStep
        /\ prio_call.tctx.type = "TASK_TYPE_BANDWIDTH_TEST"
        /\ prio_call.tctx.priority_boost = 0
        /\ \/ ~damon_data.present
           \/ damon_data.io_pattern \in {"IO_PATTERN_MIXED", "IO_PATTERN_UNKNOWN"})
       => prio_call'.ret =
              120 - (IF prio_call.tctx.is_bandwidth_critical THEN 30 ELSE 0)]_vars

\* C31: a task whose name is empty or unreadable is classified as neither
\* VectorDB-like nor kworker and is never rejected: cxl_enqueue still inserts it
\* into the fallback queue, with neither the one-slice bonus nor the one-slice
\* penalty applied (its virtual time is only raised to global_vtime - slice when
\* it is before that).
C31_EmptyNameUnclassifiedAndQueued ==
    [][\A p \in Tasks :
          (EnqueueStep(p) /\ comm[p] = "") =>
              LET slice == SCX_SLICE_DFL
                  floor == U64(global_vtime - slice)
              IN  /\ ~is_vectordb_task(comm[p]) /\ ~is_kworker_task(comm[p])
                  /\ ~task_ctx_stor'[p].is_vectordb /\ ~task_ctx_stor'[p].is_kworker
                  /\ DsqCount(dsq', p) = 1
                  /\ task_ctx_stor'[p].present =>
                         dsq_vtime'[p] = IF vtime_before(dsq_vtime[p], floor)
                                         THEN floor ELSE dsq_vtime[p]
                  /\ ~task_ctx_stor'[p].present => dsq_vtime'[p] = dsq_vtime[p]]_vars

\* C31 witness: after the clock has moved, a task with an empty name is in the
\* queue with a context that has no flag set, one slice before the clock
C31_Witness ==
    \E p \in Tasks :
        /\ comm[p] = ""
        /\ task_state[p] = "queued"
        /\ InDsq(dsq, p)
        /\ task_ctx_stor[p] = ZeroCtx
        /\ S64(global_vtime) > 0
        /\ dsq_vtime[p] = U64(global_vtime - SCX_SLICE_DFL)

\* C32: the wrap-around of virtual time is handled from engine start: with
\* global_vtime = 0, global_vtime - slice wraps to a huge unsigned value that the
\* wrap-safe comparison still orders before 0, so cxl_enqueue does not raise the
\* virtual time of a task whose virtual time is 0 (the task is inserted at 0, less
\* the bonus or plus the penalty of its type), and cxl_running advances
\* global_vtime only to values that are later in the wrap-safe order.
C32_WrapHandledFromStart ==
    [][/\ \A p \in Tasks :
              (/\ EnqueueStep(p)
               /\ task_ctx_stor'[p].present
               /\ global_vtime = 0
               /\ dsq_vtime[p] = 0)
              => LET slice == SCX_SLICE_DFL
                     wrapped == U64(global_vtime - slice)
                 IN  /\ wrapped = Modulus - slice
                     /\ vtime_before(wrapped, 0)
                     /\ dsq_vtime'[p] =
                            IF task_ctx_stor'[p].is_vectordb THEN Modulus - slice
                            ELSE IF task_ctx_stor'[p].is_kworker THEN slice
                            ELSE 0
       /\ global_vtime' # global_vtime =>
              /\ vtime_before(global_vtime, global_vtime')
              /\ \E p \in Tasks : global_vtime' = dsq_vtime[p]]_vars

\* C32 witness: a VectorDB-like task enqueued at the start has begun to run at the
\* wrapped virtual time 0 - slice, cxl_running has left the clock at 0, and an
\* unclassified task is in the queue at 0
C32_Witness ==
    \E p, q \in Tasks :
        /\ global_vtime = 0
        /\ started_vtime = Modulus - SCX_SLICE_DFL
        /\ task_ctx_stor[p].present /\ task_ctx_stor[p].is_vectordb
        /\ dsq_vtime[p] = Modulus - SCX_SLICE_DFL
        /\ task_state[q] = "queued"
        /\ task_ctx_stor[q] = ZeroCtx
        /\ dsq_vtime[q] = 0

\* the flags of a task's context as a pair
Flags(tctx) == <<tctx.is_vectordb, tctx.is_kworker>>

\* C33: a task context never has is_vectordb and is_kworker both true, and the
\* classification is sticky: after cxl_init_task both flags are false, a flag only
\* ever changes from false to true, and once either flag is set no later
\* cxl_enqueue changes either flag, even if the task's name changes; hence no
\* enqueue applies both the bonus and the penalty.
C33_FlagsExclusiveAndSticky ==
    [][\A p \in Tasks :
          LET tctx == task_ctx_stor[p]
              after == task_ctx_stor'[p]
          IN  /\ ~(after.is_vectordb /\ after.is_kworker)
              /\ (task_state[p] = "none" /\ task_state'[p] = "ready") =>
                     Flags(after) = <<FALSE, FALSE>>
              /\ (task_state[p] # "none" /\ task_state'[p] # "none") =>
                     /\ tctx.is_vectordb => after.is_vectordb
                     /\ tctx.is_kworker => after.is_kworker
              /\ (/\ task_state[p] = "ready"
                  /\ task_state'[p] \in {"enqueue:90", "queued"}
                  /\ tctx.is_vectordb \/ tctx.is_kworker) =>
                     Flags(after) = Flags(tctx)]_vars

\* the part of C33 that holds whatever the host does to the name: the flags are
\* false after cxl_init_task, a flag changes only from false to true, an enqueue
\* of a task that has a flag set changes no flag, and both flags are set only by
\* an enqueue whose second read of the name found another name than its first
StickyFlags ==
    [][\A p \in Tasks :
          LET tctx == task_ctx_stor[p]
              after == task_ctx_stor'[p]
          IN  /\ (task_state[p] = "none" /\ task_state'[p] = "ready") =>
                     Flags(after) = <<FALSE, FALSE>>
              /\ (task_state[p] # "none" /\ task_state'[p] # "none") =>
                     /\ tctx.is_vectordb => after.is_vectordb
                     /\ tctx.is_kworker => after.is_kworker
              /\ (/\ task_state[p] = "ready"
                  /\ task_state'[p] \in {"enqueue:90", "queued"}
                  /\ tctx.is_vectordb \/ tctx.is_kworker) =>
                     Flags(after) = Flags(tctx)
              /\ (after.is_vectordb /\ after.is_kworker /\ ~tctx.is_kworker) =>
                     /\ task_state[p] = "enqueue:90"
                     /\ ~is_vectordb_task(comm[p])]_vars

\* a step of a call of cxl_select_cpu for task p, in the interleaved model
SelectCallStep(p) ==
    select_pc'[p] # select_pc[p] /\ select_pc'[p].reidled = select_pc[p].reidled

\* C34: cxl_select_cpu clears the idle state of at most one CPU per call, and only
\* of the CPU it returns: never of a CPU outside the task's allowed mask and never
\* for a task that is not VectorDB-like.  Hence two concurrent calls that both
\* take the fast path never both return the same CPU unless that CPU became idle
\* again in between.
C34_ClaimsOnlyTheReturnedCpu ==
    [][/\ \A p \in Tasks :
              SelectCallStep(p) =>
                  LET cleared == cpu_idle \ cpu_idle'
                      call == select_pc'[p]
                  IN  /\ cpu_idle' \subseteq cpu_idle
                      /\ Cardinality(cleared) <= 1
                      /\ call.pc # "done" => cleared = {}
                      /\ cleared # {} =>
                             /\ cleared = {call.ret}
                             /\ call.claimed = call.ret
                             /\ call.ret \in cpus_ptr[p]
                             /\ task_ctx_stor[p].present /\ task_ctx_stor[p].is_vectordb
                      /\ cleared = {} => call.claimed = NO_CPU
       /\ \A p, q \in Tasks :
              (/\ p # q
               /\ select_pc'[p].claimed # NO_CPU
               /\ select_pc'[p].claimed = select_pc'[q].claimed)
              => (select_pc'[p].reidled \/ select_pc'[q].reidled)]_vars

\* C34 witness: of two calls for tasks that may both run on CPU 0, one has cleared
\* the idle state of CPU 0 and the other, which found CPU 0 taken, that of CPU 1;
\* neither CPU has become idle again
C34_Witness ==
    \E p, q \in Tasks :
        /\ select_pc[p].pc = "done" /\ select_pc[q].pc = "done"
        /\ select_pc[p].claimed = 0 /\ select_pc[p].ret = 0
        /\ select_pc[q].claimed = 1 /\ select_pc[q].ret = 1
        /\ 0 \in cpus_ptr[q]
        /\ ~select_pc[p].reidled /\ ~select_pc[q].reidled
        /\ cpu_idle = {}

\* C35: under any interleaving of sched_switch handlers on different CPUs,
\* cpu_usage[c] of every CPU c < 64 is the number of sched_switch events handled
\* on CPU c (no increment is lost), and a handler on one CPU never changes the
\* counter of another CPU.
C35_CpuUsageCountsSwitches ==
    [][/\ \A c \in MonCpus :
              c < CPU_USAGE_ENTRIES => cpu_usage'[c] = nr_switches'[c]
       /\ \A c \in MonCpus :
              nr_switches'[c] # nr_switches[c] =>
                  \A k \in 0..(CPU_USAGE_ENTRIES - 1) :
                      k # c => cpu_usage'[k] = cpu_usage[k]
       /\ \A k \in 0..(CPU_USAGE_ENTRIES - 1) :
              k \notin MonCpus => cpu_usage'[k] = 0]_vars

\* C35 witness: the first and the last CPU of the map have each counted an event,
\* a handler is still running on one of them, and the event of CPU 64, which
\* has no entry, has been counted nowhere
C35_Witness ==
    /\ cpu_usage[0] = 1
    /\ cpu_usage[CPU_USAGE_ENTRIES - 1] = 1
    /\ nr_switches[CPU_USAGE_ENTRIES] = 1
    /\ tp_handler[0].pc # "none"
    /\ tp_handler[CPU_USAGE_ENTRIES - 1].pc # "none"

\* C36: when the cxl_sched loader has reported that the scheduler is loaded and
\* active, the scheduler's struct_ops are attached to the host (a link exists)
\* and stay attached until SIGINT or SIGTERM is received; after the signal the
\* link is destroyed and the object closed before the process exits.
C36_ReportedMeansAttached ==
    /\ (cxl_sched.reported /\ ~cxl_sched.exiting) => cxl_sched.link = "attached"
    /\ (cxl_sched.reported /\ cxl_sched.pc = "exit") =>
           (cxl_sched.link = "destroyed" /\ cxl_sched.obj = "closed")

\* the part of C36 that holds: a loader that has reported stays in its loop
\* until a signal is received, and it exits with no link attached and with the
\* object closed
LoaderCleansUp ==
    /\ (cxl_sched.reported /\ ~cxl_sched.exiting) => cxl_sched.pc = "loop"
    /\ (cxl_sched.reported /\ cxl_sched.pc = "exit") =>
           (cxl_sched.link # "attached" /\ cxl_sched.obj = "closed")

\* C37: in cxl_bandwidth_scheduler, load_scheduler returns 0 with the object
\* open and the link attached, or it returns a value other than 0 with obj NULL,
\* no object left open and no link.  When main exits after a load that returned 0
\* (the configuration failed, the test could not be spawned, or a signal ended the
\* monitoring), unload_scheduler has run, and nothing is left open or attached.
\* unload_scheduler destroys the link before it closes the object: at no moment
\* is there a link whose object has been closed.
C37_LoadAllOrNothingAndUnloadOnExit ==
    /\ bw_sched.pc = "check" =>
           IF bw_sched.load_ret = 0
           THEN /\ bw_sched.obj = "loaded" /\ bw_sched.objects = 1
                /\ bw_sched.sched_link = "attached" /\ bw_sched.links = 1
           ELSE /\ bw_sched.obj = "NULL" /\ bw_sched.objects = 0
                /\ bw_sched.sched_link = "NULL" /\ bw_sched.links = 0
    /\ (bw_sched.pc = "exit" /\ bw_sched.load_done /\ bw_sched.load_ret = 0) =>
           /\ bw_sched.unloaded
           /\ bw_sched.obj = "NULL" /\ bw_sched.objects = 0
           /\ bw_sched.sched_link = "NULL" /\ bw_sched.links = 0
    /\ bw_sched.links = 1 => bw_sched.objects = 1

\* the loader has loaded and attached the scheduler, forked the test, been stopped
\* by a signal during the monitoring, unloaded and returned 0
C37_Witness ==
    /\ bw_sched.pc = "exit" /\ bw_sched.status = 0
    /\ bw_sched.load_done /\ bw_sched.load_ret = 0
    /\ bw_sched.running = 0 /\ bw_sched.sleeps > 0
    /\ bw_sched.child = "running"
    /\ bw_sched.unloaded /\ bw_sched.obj = "NULL" /\ bw_sched.sched_link = "NULL"

\* the test could not be forked after a load that returned 0: main unloads and
\* returns 1
SpawnFailureUnloads ==
    (bw_sched.pc = "exit" /\ bw_sched.ret_to = "288") =>
        (bw_sched.status = 1 /\ bw_sched.unloaded /\ bw_sched.objects = 0
         /\ bw_sched.links = 0)

\* main is computing or printing the results (lines 609-666)
BenchResultsPhase == bench_main.pc \in {"results", "print"}

\* every thread that was made has returned and has been joined
BenchAllJoined ==
    \A t \in 1..Len(threads) : threads[t].pc = "done" /\ threads[t].joined

\* the slots of thread_stats: readers have the first num_readers of them, writers
\* the rest, no slot is written by two threads, and a thread writes only its own
BenchSlotsDisjoint ==
    /\ \A t \in 1..Len(threads) :
           /\ threads[t].fn = "reader" =>
                  threads[t].slot \in 0..(bench_main.num_readers - 1)
           /\ threads[t].fn = "writer" =>
                  threads[t].slot \in bench_main.num_readers..(bench_main.num_threads - 1)
    /\ \A s \in DOMAIN stat_writers :
           /\ Cardinality(stat_writers[s]) <= 1
           /\ \A t \in stat_writers[s] : t \in 1..Len(threads) /\ threads[t].slot = s

\* the results are computed from slots that no thread writes any more: every
\* thread is joined, and every slot has had exactly one writer
BenchResultsAfterJoin ==
    BenchResultsPhase =>
        /\ Len(threads) = bench_main.num_threads
        /\ BenchAllJoined
        /\ \A s \in 0..(bench_main.num_threads - 1) : Cardinality(stat_writers[s]) = 1

\* C38: in cxl_memory_test, once main has set stop_flag every reader and writer
\* thread terminates and is joined, and the results are computed only after that,
\* so that no thread writes a slot while main reads it.  Each slot of thread_stats
\* is written by exactly one worker thread: readers use slots 0..num_readers-1,
\* writers the other num_threads - num_readers slots.
C38_WorkersStopAndOwnTheirSlots ==
    /\ [](BenchSlotsDisjoint /\ BenchResultsAfterJoin)
    /\ (stop_flag /\ bench_main.pc = "join") ~> (BenchAllJoined /\ BenchResultsPhase)

\* a reader and a writer have each copied blocks, were stopped and joined, and
\* main has summed their slots
C38_Witness ==
    /\ bench_main.pc = "print" /\ stop_flag
    /\ bench_main.num_threads = MaxThreads
    /\ bench_main.num_readers = 2 /\ bench_main.num_writers = MaxThreads - 2
    /\ bench_main.total_read_ops > 0 /\ bench_main.total_write_ops > 0
    /\ bench_main.total_read_bytes = bench_main.total_read_ops * BenchBlockSize
    /\ BenchAllJoined

====
